---- MODULE Spec2Model ----
(***************************************************************************)
(* Verification model of the elimination and clique-tree subsystem of      *)
(* gtsam: the symbolic elimination of a factor graph into a Bayes net and  *)
(* the BayesTree built from it (insert, one-pass constructor, removePath,  *)
(* removeTop) as implemented in gtsam/inference/BayesTree-inl.h.           *)
(***************************************************************************)
EXTENDS Integers, Sequences, FiniteSets, TLC

(***************************************************************************)
(* Bounds of the model.                                                    *)
(***************************************************************************)
\* number of variables; Index keys are 0 .. NumKeys-1, ordered by elimination
NumKeys == 4
\* number of Clique objects one run may allocate
MaxCliques == 5
\* longest key list handed to removeTop
MaxTopKeys == 2
\* number of cliques one run may remove
MaxRemoved == 3
\* number of cliques a run of arbitrary inserts may allocate
MaxAnyCliques == 3
\* number of variables the arbitrary inserts are over
NumAnyKeys == 3
\* number of Clique objects a run of clear and re-insert may allocate
MaxClearCliques == 8
\* number of variables of the factor graphs the elimination driver is given
NumElimKeys == 4
\* number of factors of these graphs
MaxElimFactors == 4

Keys == 0 .. (NumKeys - 1)

\* the null shared_ptr / expired weak_ptr
NULL == 0

(***************************************************************************)
(* Sequence helpers (std::list / std::vector operations).                  *)
(***************************************************************************)
Range(s) == {s[i] : i \in 1 .. Len(s)}

MinOf(S) == CHOOSE x \in S : \A y \in S : x <= y

MaxOf(S) == CHOOSE x \in S : \A y \in S : y <= x

RECURSIVE SortedSeq(_)
SortedSeq(S) ==
  IF S = {} THEN << >>
  ELSE LET m == MinOf(S) IN << m >> \o SortedSeq(S \ {m})

\* std::list::remove(x): erases every element equal to x
RECURSIVE ListRemove(_, _)
ListRemove(l, x) ==
  IF l = << >> THEN << >>
  ELSE IF Head(l) = x THEN ListRemove(Tail(l), x)
       ELSE << Head(l) >> \o ListRemove(Tail(l), x)

\* std::vector::resize(n) of a vector of shared_ptr: new slots are null
VecResize(v, n) ==
  IF n <= Len(v) THEN SubSeq(v, 1, n)
  ELSE v \o [i \in 1 .. (n - Len(v)) |-> NULL]

\* v[key] = x on a 0-based vector
VecSet(v, key, x) == [v EXCEPT ![key + 1] = x]

\* v[key] on a 0-based vector
VecGet(v, key) == v[key + 1]

(***************************************************************************)
(* Conditionals: a key vector whose first nrFrontals entries are the       *)
(* frontal keys and whose remaining entries are the parents (separator).   *)
(***************************************************************************)
FromKeys(keys, nrFrontals) == [keys |-> keys, nrFrontals |-> nrFrontals]

frontals(c) == SubSeq(c.keys, 1, c.nrFrontals)

parents(c) == SubSeq(c.keys, c.nrFrontals + 1, Len(c.keys))

lastFrontalKey(c) == c.keys[c.nrFrontals]

size(c) == Len(c.keys)

(***************************************************************************)
(* Symbolic elimination of a factor graph (a set of key sets) in the       *)
(* order of the Index keys.                                                *)
(***************************************************************************)
\* eliminateOne that re-inserts the separator factor also when it is empty
eliminateOne_EmptySeparator(factors, key) ==
  LET touching == {f \in factors : key \in f}
      sep      == (UNION touching) \ {key}
  IN [conditional |-> FromKeys(<< key >> \o SortedSeq(sep), 1),
      factors     |-> (factors \ touching) \cup {sep}]

\* eliminateOne that leaves the gathered factors in the graph
eliminateOne_KeepsTouching(factors, key) ==
  LET touching == {f \in factors : key \in f}
      sep      == (UNION touching) \ {key}
  IN [conditional |-> FromKeys(<< key >> \o SortedSeq(sep), 1),
      factors     |-> factors \cup (IF sep = {} THEN {} ELSE {sep})]

\* eliminateOne: gather the factors on key, emit the conditional on key given
\* the separator, re-insert the separator factor when it is non-empty
eliminateOne(factors, key) ==
  LET touching == {f \in factors : key \in f}
      sep      == (UNION touching) \ {key}
  IN [conditional |-> FromKeys(<< key >> \o SortedSeq(sep), 1),
      factors     |-> (factors \ touching) \cup (IF sep = {} THEN {} ELSE {sep})]

\* the Bayes net of a full elimination: front = eliminated first, root last
RECURSIVE eliminateFrom(_, _)
eliminateFrom(factors, key) ==
  IF key >= NumKeys THEN << >>
  ELSE LET r == eliminateOne(factors, key)
       IN << r.conditional >> \o eliminateFrom(r.factors, key + 1)

eliminate(factors) == eliminateFrom(factors, 0)

\* the factor graphs the model draws from: any set of binary factors
Edges == {e \in SUBSET Keys : Cardinality(e) = 2}

FactorGraphs == SUBSET Edges

(***************************************************************************)
(* The BayesTree.  A tree value W holds root_, the index nodes_ (a vector   *)
(* of clique pointers addressed by key), the Clique objects (heap, a       *)
(* pointer is a position in it) and the two output containers that         *)
(* removePath and removeTop fill: the BayesNet bn and the Cliques list     *)
(* orphans.                                                                *)
(***************************************************************************)
EmptyTree ==
  [root_ |-> NULL, nodes_ |-> << >>, heap |-> << >>, bn |-> << >>, orphans |-> << >>]

\* new Clique(conditional): no parent, no children
NewClique(conditional) ==
  [conditional |-> conditional, parent_ |-> NULL, children_ |-> << >>]

\* a clique is a root when its parent link is empty
isRoot(c) == c.parent_ = NULL

\* nodes_[key] = x for every key of the list ks
RECURSIVE VecSetAll(_, _, _)
VecSetAll(v, ks, x) ==
  IF ks = << >> THEN v ELSE VecSetAll(VecSet(v, Head(ks), x), Tail(ks), x)

\* the index holds a clique for key
InIndex(W, key) == key < Len(W.nodes_) /\ VecGet(W.nodes_, key) # NULL

\* bayesTree[key]: the clique that owns key
CliqueOf(W, key) == VecGet(W.nodes_, key)

\* addClique that links the clique to the root instead of parent_clique
addCliquePtr_UnderRoot(W, clique, parent_clique) ==
  LET cond   == W.heap[clique].conditional
      last   == lastFrontalKey(cond)
      newLen == IF last + 1 > Len(W.nodes_) THEN last + 1 ELSE Len(W.nodes_)
      nodes1 == VecSetAll(VecResize(W.nodes_, newLen), frontals(cond), clique)
  IN IF parent_clique # NULL
     THEN [W EXCEPT !.nodes_ = nodes1,
                    !.heap = [W.heap EXCEPT ![clique].parent_ = W.root_,
                                            ![W.root_].children_ = Append(@, clique)]]
     ELSE [W EXCEPT !.nodes_ = nodes1, !.root_ = clique]

\* addClique(clique, parent_clique) for an allocated clique
addCliquePtr(W, clique, parent_clique) ==
  LET cond   == W.heap[clique].conditional
      last   == lastFrontalKey(cond)
      newLen == IF last + 1 > Len(W.nodes_) THEN last + 1 ELSE Len(W.nodes_)
      nodes1 == VecSetAll(VecResize(W.nodes_, newLen), frontals(cond), clique)
  IN IF parent_clique # NULL
     THEN [W EXCEPT !.nodes_ = nodes1,
                    !.heap = [W.heap EXCEPT ![clique].parent_ = parent_clique,
                                            ![parent_clique].children_ = Append(@, clique)]]
     ELSE [W EXCEPT !.nodes_ = nodes1, !.root_ = clique]

\* the assert(!root_) of addClique
addCliqueAssert(W, parent_clique) == parent_clique = NULL => W.root_ = NULL

\* addClique(conditional, parent_clique): allocate the clique, then attach it
addClique(W, conditional, parent_clique) ==
  addCliquePtr([W EXCEPT !.heap = Append(@, NewClique(conditional))],
               Len(W.heap) + 1, parent_clique)

\* the debug asserts of addToCliqueFront: every parent of the conditional is
\* ordered after its frontal key and occurs among the keys of the clique
addToCliqueFrontAssert(W, conditional, clique) ==
  \A p \in Range(parents(conditional)) :
     /\ p > lastFrontalKey(conditional)
     /\ p \in Range(W.heap[clique].conditional.keys)

\* addToCliqueFront that puts the new key behind the keys of the clique
addToCliqueFront_Back(W, conditional, clique) ==
  LET key     == lastFrontalKey(conditional)
      newLen  == IF key + 1 > Len(W.nodes_) THEN key + 1 ELSE Len(W.nodes_)
      old     == W.heap[clique].conditional
      newKeys == old.keys \o << key >>
  IN [W EXCEPT !.nodes_ = VecSet(VecResize(W.nodes_, newLen), key, clique),
               !.heap = [W.heap EXCEPT ![clique].conditional =
                                          FromKeys(newKeys, old.nrFrontals + 1)]]

\* addToCliqueFront: put the frontal key of the conditional in front of the
\* keys of the clique and point the index at the clique
addToCliqueFront(W, conditional, clique) ==
  LET key     == lastFrontalKey(conditional)
      newLen  == IF key + 1 > Len(W.nodes_) THEN key + 1 ELSE Len(W.nodes_)
      old     == W.heap[clique].conditional
      newKeys == << key >> \o old.keys
  IN [W EXCEPT !.nodes_ = VecSet(VecResize(W.nodes_, newLen), key, clique),
               !.heap = [W.heap EXCEPT ![clique].conditional =
                                          FromKeys(newKeys, old.nrFrontals + 1)]]

\* findParentClique with max_element in place of min_element
findParentClique_Highest(ps) == MaxOf(Range(ps))

\* findParentClique: the lowest-ordered parent
findParentClique(ps) == MinOf(Range(ps))

\* insert that compares the parents with the separator of the parent clique
\* (nrParents() in place of size())
insert_SeparatorSize(W, conditional) ==
  LET ps == parents(conditional) IN
  IF ps = << >>
  THEN [tree |-> addClique(W, conditional, NULL), error |-> FALSE,
        assertFailed |-> ~addCliqueAssert(W, NULL)]
  ELSE LET parentRepresentative == findParentClique(ps) IN
       IF ~InIndex(W, parentRepresentative)
       THEN [tree |-> W, error |-> TRUE, assertFailed |-> FALSE]
       ELSE LET parent_clique == CliqueOf(W, parentRepresentative) IN
            IF Len(parents(W.heap[parent_clique].conditional)) = Len(ps)
            THEN [tree |-> addToCliqueFront(W, conditional, parent_clique),
                  error |-> FALSE,
                  assertFailed |-> ~addToCliqueFrontAssert(W, conditional, parent_clique)]
            ELSE [tree |-> addClique(W, conditional, parent_clique),
                  error |-> FALSE, assertFailed |-> FALSE]

\* insert that also merges into a parent clique of more keys than parents
insert_MergeIntoLarger(W, conditional) ==
  LET ps == parents(conditional) IN
  IF ps = << >>
  THEN [tree |-> addClique(W, conditional, NULL), error |-> FALSE,
        assertFailed |-> ~addCliqueAssert(W, NULL)]
  ELSE LET parentRepresentative == findParentClique(ps) IN
       IF ~InIndex(W, parentRepresentative)
       THEN [tree |-> W, error |-> TRUE, assertFailed |-> FALSE]
       ELSE LET parent_clique == CliqueOf(W, parentRepresentative) IN
            IF size(W.heap[parent_clique].conditional) >= Len(ps)
            THEN [tree |-> addToCliqueFront(W, conditional, parent_clique),
                  error |-> FALSE,
                  assertFailed |-> ~addToCliqueFrontAssert(W, conditional, parent_clique)]
            ELSE [tree |-> addClique(W, conditional, parent_clique),
                  error |-> FALSE, assertFailed |-> FALSE]

\* insert(bayesTree, conditional).  error: the index lookup of the parent
\* representative failed and nothing was changed; assertFailed: a debug
\* assert does not hold (a debug build aborts, a release build goes on to tree)
insert(W, conditional) ==
  LET ps == parents(conditional) IN
  IF ps = << >>
  THEN [tree |-> addClique(W, conditional, NULL), error |-> FALSE,
        assertFailed |-> ~addCliqueAssert(W, NULL)]
  ELSE LET parentRepresentative == findParentClique(ps) IN
       IF ~InIndex(W, parentRepresentative)
       THEN [tree |-> W, error |-> TRUE, assertFailed |-> FALSE]
       ELSE LET parent_clique == CliqueOf(W, parentRepresentative) IN
            IF size(W.heap[parent_clique].conditional) = Len(ps)
            THEN [tree |-> addToCliqueFront(W, conditional, parent_clique),
                  error |-> FALSE,
                  assertFailed |-> ~addToCliqueFrontAssert(W, conditional, parent_clique)]
            ELSE [tree |-> addClique(W, conditional, parent_clique),
                  error |-> FALSE, assertFailed |-> FALSE]

\* the constructor with a forward iterator: from the first conditional on
RECURSIVE BayesTreeFrom_Forward(_, _, _)
BayesTreeFrom_Forward(W, bayesNet, i) ==
  IF i = 0 THEN [tree |-> W, error |-> FALSE]
  ELSE LET r == insert(W, bayesNet[Len(bayesNet) - i + 1])
       IN IF r.error THEN [tree |-> r.tree, error |-> TRUE]
          ELSE BayesTreeFrom_Forward(r.tree, bayesNet, i - 1)

\* BayesTree(bayesNet): insert the conditionals from the last one backward;
\* an error leaves the constructor at once
RECURSIVE BayesTreeFrom(_, _, _)
BayesTreeFrom(W, bayesNet, i) ==
  IF i = 0 THEN [tree |-> W, error |-> FALSE]
  ELSE LET r == insert(W, bayesNet[i])
       IN IF r.error THEN [tree |-> r.tree, error |-> TRUE]
          ELSE BayesTreeFrom(r.tree, bayesNet, i - 1)

BayesTree(bayesNet) == BayesTreeFrom(EmptyTree, bayesNet, Len(bayesNet))

\* the cliques of the subtree below and including clique
RECURSIVE Subtree(_, _)
Subtree(W, clique) ==
  IF clique = NULL THEN {}
  ELSE {clique} \cup UNION {Subtree(W, ch) : ch \in Range(W.heap[clique].children_)}

\* size(): the number of cliques below the root
treeSize(W) == Cardinality(Subtree(W, W.root_))

\* check_sharedCliques: both null, or both set and equal as cliques (a clique
\* equals another when their conditionals are equal)
check_sharedCliques(W1, v1, W2, v2) ==
  \/ v1 = NULL /\ v2 = NULL
  \/ /\ v1 # NULL
     /\ v2 # NULL
     /\ W1.heap[v1].conditional = W2.heap[v2].conditional

\* equals(other): same size() and pairwise equal index entries, compared over
\* the length of this tree's index
equals(W, other) ==
  /\ treeSize(W) = treeSize(other)
  /\ Len(W.nodes_) <= Len(other.nodes_)
  /\ \A i \in 1 .. Len(W.nodes_) :
        check_sharedCliques(W, W.nodes_[i], other, other.nodes_[i])

\* clear that leaves the root pointer
clear_KeepRoot(W) == [W EXCEPT !.nodes_ = << >>]

\* clear(): remove all nodes and clear the root pointer
clear(W) == [W EXCEPT !.nodes_ = << >>, !.root_ = NULL]

\* child->parent_ = weak_ptr() for every child of the list
RECURSIVE ClearParents(_, _)
ClearParents(h, children) ==
  IF children = << >> THEN h
  ELSE ClearParents([h EXCEPT ![Head(children)].parent_ = NULL], Tail(children))

\* removeClique that does not orphan the children of the clique
removeClique_KeepParents(W, clique) ==
  LET c     == W.heap[clique]
      heap1 == IF isRoot(c) THEN W.heap
               ELSE [W.heap EXCEPT ![c.parent_].children_ = ListRemove(@, clique)]
  IN [W EXCEPT !.root_ = IF isRoot(c) THEN NULL ELSE @,
               !.heap = heap1,
               !.nodes_ = VecSetAll(@, c.conditional.keys, NULL)]

\* removeClique: detach the clique from its parent (or reset the root),
\* clear the parent link of its children, reset the index entries of the
\* keys of its conditional
removeClique(W, clique) ==
  LET c     == W.heap[clique]
      heap1 == IF isRoot(c) THEN W.heap
               ELSE [W.heap EXCEPT ![c.parent_].children_ = ListRemove(@, clique)]
      heap2 == ClearParents(heap1, c.children_)
  IN [W EXCEPT !.root_ = IF isRoot(c) THEN NULL ELSE @,
               !.heap = heap2,
               !.nodes_ = VecSetAll(@, c.conditional.keys, NULL)]

\* removePath that does not go on to the path above the clique
removePath_OnlyClique(W, clique) ==
  IF clique = NULL THEN W
  ELSE LET W1 == [W EXCEPT !.orphans = ListRemove(@, clique)]
           W3 == removeClique(W1, clique)
           W4 == [W3 EXCEPT !.orphans = W3.heap[clique].children_ \o @,
                            !.heap = [W3.heap EXCEPT ![clique].children_ = << >>]]
       IN [W4 EXCEPT !.bn = Append(@, W4.heap[clique].conditional)]

\* removePath that does not take the clique out of the orphans first
RECURSIVE removePath_KeepOrphan(_, _)
removePath_KeepOrphan(W, clique) ==
  IF clique = NULL THEN W
  ELSE LET W2 == removeClique(W, clique)
           W3 == removePath_KeepOrphan(W2, W2.heap[clique].parent_)
           W4 == [W3 EXCEPT !.orphans = W3.heap[clique].children_ \o @,
                            !.heap = [W3.heap EXCEPT ![clique].children_ = << >>]]
       IN [W4 EXCEPT !.bn = Append(@, W4.heap[clique].conditional)]

\* removePath: drop the clique from the orphans, remove it, remove the path
\* above it, then splice its children in front of the orphans and push its
\* conditional to the back of bn
RECURSIVE removePath(_, _)
removePath(W, clique) ==
  IF clique = NULL THEN W
  ELSE LET W1 == [W EXCEPT !.orphans = ListRemove(@, clique)]
           W2 == removeClique(W1, clique)
           W3 == removePath(W2, W2.heap[clique].parent_)
           W4 == [W3 EXCEPT !.orphans = W3.heap[clique].children_ \o @,
                            !.heap = [W3.heap EXCEPT ![clique].children_ = << >>]]
       IN [W4 EXCEPT !.bn = Append(@, W4.heap[clique].conditional)]

\* removeTop: removePath for every key of the list that the index still holds
RECURSIVE removeTop(_, _)
removeTop(W, keys) ==
  IF keys = << >> THEN W
  ELSE LET key == Head(keys)
           W1  == IF key < Len(W.nodes_) /\ VecGet(W.nodes_, key) # NULL
                  THEN removePath(W, VecGet(W.nodes_, key))
                  ELSE W
       IN removeTop(W1, Tail(keys))

(***************************************************************************)
(* State.                                                                  *)
(***************************************************************************)
VARIABLES
  net,      \* the Bayes net the tree is built from
  root_,    \* BayesTree::root_
  nodes_,   \* BayesTree::nodes_
  heap,     \* the Clique objects
  bn,       \* the BayesNet that removePath / removeTop append to
  orphans,  \* the Cliques list that removePath / removeTop fill
  aborted,  \* a debug assert has ended the program
  rev,      \* number of insert calls so far, when they took the conditionals
            \* of net from the last one backward and nothing else was called
  fwd,      \* the same for insert calls that took them from the first one on
  factors,  \* the elimination driver's remaining factors
  ordering, \* the elimination driver's remaining ordering
  we,       \* the frame of a weighted_eliminate call
  chol,     \* the frame of a choleskyCareful call
  call,     \* a call of a back-substitution function and its outcome
  lf,       \* a LinearFactor object
  opt,      \* a nonlinear optimizer and the iteration it is in
  lin       \* a LinearFactor graph, its elimination and its solution

vars ==
  << net, root_, nodes_, heap, bn, orphans, aborted, rev, fwd, factors, ordering,
     we, chol, call, lf, opt, lin >>

\* the tree, its outputs and the Bayes net
treeVars == << net, root_, nodes_, heap, bn, orphans, aborted, rev, fwd >>

\* the numeric kernel and the linear factor, which the tree operations and the
\* symbolic driver leave alone
numericVars == << we, chol, call, lf, opt, lin >>

\* no call in progress, no object
Idle == [pc |-> "idle"]

InitNumeric ==
  /\ we = Idle
  /\ chol = Idle
  /\ call = Idle
  /\ lf = Idle
  /\ opt = Idle
  /\ lin = Idle

\* the state of the elimination driver, which the tree operations leave alone
driverVars == << factors, ordering >>

This ==
  [root_ |-> root_, nodes_ |-> nodes_, heap |-> heap, bn |-> bn, orphans |-> orphans]

SetThis(W) ==
  /\ root_' = W.root_
  /\ nodes_' = W.nodes_
  /\ heap' = W.heap
  /\ bn' = W.bn
  /\ orphans' = W.orphans

\* rev and fwd once the calls are no longer such a run of inserts
Other == -1

RevAfterInsert(conditional) ==
  IF rev # Other /\ rev < Len(net) /\ conditional = net[Len(net) - rev]
  THEN rev + 1 ELSE Other

FwdAfterInsert(conditional) ==
  IF fwd # Other /\ fwd < Len(net) /\ conditional = net[fwd + 1]
  THEN fwd + 1 ELSE Other

\* the cliques the tree or an orphan subtree still holds
Live(W) ==
  Subtree(W, W.root_) \cup UNION {Subtree(W, o) : o \in Range(W.orphans)}

\* the cliques the index points at
Indexed(W) == Range(W.nodes_) \ {NULL}

InitTree ==
  /\ root_ = NULL
  /\ nodes_ = << >>
  /\ heap = << >>
  /\ bn = << >>
  /\ orphans = << >>
  /\ aborted = FALSE
  /\ rev = 0
  /\ fwd = 0

\* the driver after a full elimination: nothing remains
InitEliminated ==
  /\ factors = {}
  /\ ordering = << >>

Init ==
  /\ \E g \in FactorGraphs : net = eliminate(g)
  /\ InitTree
  /\ InitEliminated
  /\ InitNumeric

\* one call insert(*this, conditional); a failed debug assert either ends the
\* program (debug build) or is compiled out (release build)
DoInsertMax(conditional, maxCliques) ==
  LET r == insert(This, conditional) IN
  /\ Len(r.tree.heap) <= maxCliques
  /\ aborted' \in {a \in BOOLEAN : a => r.assertFailed}
  /\ SetThis(IF aborted' THEN This ELSE r.tree)
  /\ rev' = RevAfterInsert(conditional)
  /\ fwd' = FwdAfterInsert(conditional)
  /\ UNCHANGED << net, driverVars, numericVars >>

DoInsert(conditional) == DoInsertMax(conditional, MaxCliques)

\* insert of a conditional of the net that is not in the tree yet: its parents
\* are all in the index, or the lookup of its lowest-ordered parent fails
Insert(conditional) ==
  /\ ~aborted
  /\ ~InIndex(This, lastFrontalKey(conditional))
  /\ parents(conditional) = << >> => root_ = NULL
  /\ \/ \A p \in Range(parents(conditional)) : InIndex(This, p)
     \/ /\ parents(conditional) # << >>
        /\ ~InIndex(This, findParentClique(parents(conditional)))
  /\ DoInsert(conditional)

\* removePath(clique, bn, orphans) for a null clique or a clique of the tree
RemovePath(clique) ==
  /\ ~aborted
  /\ Len(removePath(This, clique).bn) <= MaxRemoved
  /\ SetThis(removePath(This, clique))
  /\ rev' = Other
  /\ fwd' = Other
  /\ UNCHANGED << net, aborted, driverVars, numericVars >>

\* removeTop(keys, bn, orphans)
RemoveTop(keys) ==
  /\ ~aborted
  /\ Len(removeTop(This, keys).bn) <= MaxRemoved
  /\ SetThis(removeTop(This, keys))
  /\ rev' = Other
  /\ fwd' = Other
  /\ UNCHANGED << net, aborted, driverVars, numericVars >>

\* the key lists given to removeTop; NumKeys is a key beyond the index
TopKeyLists ==
  UNION {[1 .. n -> 0 .. NumKeys] : n \in 0 .. MaxTopKeys}

\* the state after BayesTree(net), for a net the constructor accepts
InitBuilt ==
  /\ \E g \in FactorGraphs :
        LET r == BayesTree(eliminate(g)) IN
        /\ ~r.error
        /\ Cardinality({i \in 1 .. NumKeys : parents(eliminate(g)[i]) = << >>}) = 1
        /\ net = eliminate(g)
        /\ root_ = r.tree.root_
        /\ nodes_ = r.tree.nodes_
        /\ heap = r.tree.heap
  /\ bn = << >>
  /\ orphans = << >>
  /\ aborted = FALSE
  /\ rev = NumKeys
  /\ fwd = Other
  /\ InitEliminated
  /\ InitNumeric

\* the arguments of removePath: null, or a clique the tree, an orphan subtree
\* or the index holds
PathArgs == {NULL} \cup Live(This) \cup Indexed(This)

\* tree surgery on a built tree: inserts, removePath and removeTop in any order
Next ==
  \/ \E i \in 1 .. Len(net) : Insert(net[i])
  \/ \E clique \in PathArgs : RemovePath(clique)
  \/ \E keys \in TopKeyLists : RemoveTop(keys)

Spec == InitBuilt /\ [][Next]_vars

\* building a tree: inserts only
NextBuild == \E i \in 1 .. Len(net) : Insert(net[i])

SpecBuild == Init /\ [][NextBuild]_vars

\* removing paths from a built tree
NextRemove ==
  \/ \E clique \in PathArgs : RemovePath(clique)
  \/ \E keys \in TopKeyLists : RemoveTop(keys)

SpecRemove == InitBuilt /\ [][NextRemove]_vars

(***************************************************************************)
(* Inserting arbitrary conditionals, also ones the tree cannot take.       *)
(***************************************************************************)
\* every conditional on one frontal key with any set of other keys as parents
AnyConditionals ==
  {FromKeys(<< k >> \o SortedSeq(P), 1) :
      k \in 0 .. (NumAnyKeys - 1), P \in SUBSET (0 .. (NumAnyKeys - 1))}

InitAny ==
  /\ net = << >>
  /\ InitTree
  /\ InitEliminated
  /\ InitNumeric

InsertAny(conditional) ==
  /\ ~aborted
  /\ lastFrontalKey(conditional) \notin Range(parents(conditional))
  /\ Len(heap) < MaxAnyCliques
  /\ DoInsert(conditional)

NextAny == \E conditional \in AnyConditionals : InsertAny(conditional)

SpecAny == InitAny /\ [][NextAny]_vars

(***************************************************************************)
(* The elimination driver: state (remaining factors, remaining ordering,   *)
(* accumulated Bayes net).  An Ordering names the variables x1, x2, ... in *)
(* the order of their elimination; the Index key of a variable is its      *)
(* place in the Ordering, counted from 0.                                  *)
(***************************************************************************)
\* the orderings of the variables x1 .. xn: each variable exactly once
Orderings(n) ==
  {ord \in [1 .. n -> 1 .. n] : \A i, j \in 1 .. n : ord[i] = ord[j] => i = j}

\* the Index key of variable v under the ordering
IndexOf(ord, v) == (CHOOSE i \in 1 .. Len(ord) : ord[i] = v) - 1

\* a factor graph over variables, written over the Index keys of the ordering
Relabel(graph, ord) == {{IndexOf(ord, v) : v \in f} : f \in graph}

\* the factor graphs the driver is given: any set of unary and binary factors
DriverGraphs ==
  {graph \in SUBSET {f \in SUBSET (1 .. NumElimKeys) : Cardinality(f) \in {1, 2}} :
      Cardinality(graph) <= MaxElimFactors}

\* eliminate(ordering) about to start on a graph
StartEliminate(graph, ord) ==
  /\ factors = Relabel(graph, ord)
  /\ ordering = SortedSeq(0 .. (Len(ord) - 1))
  /\ net = << >>
  /\ InitTree
  /\ InitNumeric

InitElim ==
  \E graph \in DriverGraphs, ord \in Orderings(NumElimKeys) :
     StartEliminate(graph, ord)

\* eliminate's loop with the conditional put at the front of the Bayes net
EliminateOne_Prepend ==
  /\ ordering # << >>
  /\ LET r == eliminateOne(factors, Head(ordering)) IN
     /\ factors' = r.factors
     /\ net' = << r.conditional >> \o net
  /\ ordering' = Tail(ordering)
  /\ UNCHANGED << root_, nodes_, heap, bn, orphans, aborted, rev, fwd, numericVars >>

\* one turn of eliminate's loop: eliminateOne on the next key of the ordering,
\* the conditional added at the back of the Bayes net
EliminateOne ==
  /\ ordering # << >>
  /\ LET r == eliminateOne(factors, Head(ordering)) IN
     /\ factors' = r.factors
     /\ net' = Append(net, r.conditional)
  /\ ordering' = Tail(ordering)
  /\ UNCHANGED << root_, nodes_, heap, bn, orphans, aborted, rev, fwd, numericVars >>

NextElim == EliminateOne

SpecElim == InitElim /\ [][NextElim]_vars

(***************************************************************************)
(* clear() of a built tree and the constructor's loop run again on it.     *)
(***************************************************************************)
\* clear() of a tree that holds the whole net
Clear ==
  /\ ~aborted
  /\ rev = Len(net)
  /\ SetThis(clear(This))
  /\ rev' = 0
  /\ fwd' = 0
  /\ UNCHANGED << net, aborted, driverVars, numericVars >>

\* one turn of the constructor's loop: insert the next conditional, from the
\* last one of the net backward
Reinsert ==
  /\ ~aborted
  /\ rev # Other
  /\ rev < Len(net)
  /\ DoInsertMax(net[Len(net) - rev], MaxClearCliques)

NextClear == Clear \/ Reinsert

SpecClear == InitBuilt /\ [][NextClear]_vars

(***************************************************************************)
(* The smoother of the tests: a chain x1 .. x7 with a prior on x1,         *)
(* eliminated under an ordering and made into a tree by the constructor.   *)
(***************************************************************************)
ChainLen == 7

ChainGraph == {{1}} \cup {{i, i + 1} : i \in 1 .. (ChainLen - 1)}

NaturalOrdering == << 1, 2, 3, 4, 5, 6, 7 >>

NestedOrdering == << 1, 3, 5, 7, 2, 6, 4 >>

\* eliminate(ordering) as a whole: the Bayes net of eliminating keys in turn
RECURSIVE eliminateKeys(_, _)
eliminateKeys(fs, keys) ==
  IF keys = << >> THEN << >>
  ELSE LET r == eliminateOne(fs, Head(keys))
       IN << r.conditional >> \o eliminateKeys(r.factors, Tail(keys))

\* the Bayes net of the chain under an ordering
ChainNet(ord) ==
  eliminateKeys(Relabel(ChainGraph, ord), SortedSeq(0 .. (Len(ord) - 1)))

InitChain == \E ord \in Orderings(ChainLen) : StartEliminate(ChainGraph, ord)

\* one turn of the constructor's loop on the finished Bayes net
Construct ==
  /\ ordering = << >>
  /\ Reinsert

NextChain == EliminateOne \/ Construct

SpecChain == InitChain /\ [][NextChain]_vars

(***************************************************************************)
(* Doubles.  A double is modelled by the exact rational n/d it stands for  *)
(* (rounding is left out), +infinity by 1/0.                                *)
(***************************************************************************)
RECURSIVE GCD(_, _)
GCD(x, y) == IF y = 0 THEN x ELSE GCD(y, x % y)

Abs(x) == IF x < 0 THEN -x ELSE x

Rat(n, d) ==
  IF d = 0 THEN [n |-> 1, d |-> 0]
  ELSE LET g == GCD(Abs(n), Abs(d))
           sgn == IF d < 0 THEN -1 ELSE 1
       IN [n |-> (sgn * n) \div g, d |-> (sgn * d) \div g]

Num(k) == Rat(k, 1)

\* std::numeric_limits<double>::infinity()
Infinity == Rat(1, 0)

IsInf(x) == x.d = 0

RAdd(x, y) ==
  IF IsInf(x) \/ IsInf(y) THEN Infinity ELSE Rat(x.n * y.d + y.n * x.d, x.d * y.d)

RNeg(x) == [x EXCEPT !.n = -x.n]

RSub(x, y) == RAdd(x, RNeg(y))

\* the products the code forms never have a zero with an infinity
RMul(x, y) ==
  IF IsInf(x) \/ IsInf(y) THEN Infinity ELSE Rat(x.n * y.n, x.d * y.d)

\* x / y: a finite x over infinity is 0, a positive x over 0 is +infinity
RDiv(x, y) ==
  IF IsInf(y) THEN Num(0)
  ELSE IF y.n = 0 \/ IsInf(x) THEN Infinity
  ELSE Rat(x.n * y.d, x.d * y.n)

RLess(x, y) ==
  IF IsInf(x) THEN FALSE
  ELSE IF IsInf(y) THEN TRUE
  ELSE x.n * y.d < y.n * x.d

fabs(x) == [x EXCEPT !.n = Abs(x.n)]

\* x < 1/D and x > 1/D for a tolerance 1/D, D a power of ten, without forming
\* products beyond the integers of the checker
LessThanInverse(x, D) ==
  /\ ~IsInf(x)
  /\ \/ x.n <= 0
     \/ x.d \div x.n > D
     \/ (x.d \div x.n = D /\ x.d % x.n > 0)

GreaterThanInverse(x, D) ==
  \/ IsInf(x)
  \/ (x.n > 0 /\ x.d \div x.n < D)

\* 1e-9 and 1e-8 as 1/Tol9 and 1/Tol8
Tol9 == 1000000000

Tol8 == 100000000

\* 1./sqrt(x), kept as the x it is the inverse root of
InvSqrt(x) == [invSqrtOf |-> x]

(***************************************************************************)
(* Vectors and matrices: a Vector is a sequence of doubles, a Matrix a      *)
(* sequence of rows.                                                        *)
(***************************************************************************)
\* the sequence f[1], ..., f[n]
RECURSIVE AsSeq(_, _)
AsSeq(f, n) == IF n = 0 THEN << >> ELSE Append(AsSeq(f, n - 1), f[n])

size1(A) == Len(A)

size2(A) == IF A = << >> THEN 0 ELSE Len(A[1])

\* column_(A, j), j counted from 0
column_(A, j) == AsSeq([i \in 1 .. size1(A) |-> A[i][j + 1]], size1(A))

zero(n) == AsSeq([i \in 1 .. n |-> Num(0)], n)

\* delta(n, i, value): zero but for value at place i (from 0)
delta(n, i, value) == [zero(n) EXCEPT ![i + 1] = value]

\* basis(n, i): delta(n, i, 1.0)
basis(n, i) == delta(n, i, Num(1))

emul(u, v) == AsSeq([i \in 1 .. Len(u) |-> RMul(u[i], v[i])], Len(u))

reciprocal(u) == AsSeq([i \in 1 .. Len(u) |-> RDiv(Num(1), u[i])], Len(u))

RECURSIVE inner_prod(_, _)
inner_prod(u, v) ==
  IF u = << >> THEN Num(0)
  ELSE RAdd(RMul(Head(u), Head(v)), inner_prod(Tail(u), Tail(v)))

(***************************************************************************)
(* weighted_eliminate and weightedPseudoinverse.                            *)
(***************************************************************************)
\* number of rows and of columns of the matrices given to weighted_eliminate
MaxRows == 2

MaxCols == 2

\* weightedPseudoinverse(a, sigmas, pseudo): the precision it returns and the
\* pseudo it leaves
weightedPseudoinverse(a, sigmas) ==
  LET m == Len(sigmas)
      constraints ==
        {i \in 1 .. m : /\ LessThanInverse(sigmas[i], Tol9)
                        /\ GreaterThanInverse(fabs(a[i]), Tol9)}
      precisions ==
        AsSeq([i \in 1 .. m |->
                 IF LessThanInverse(fabs(a[i]), Tol9) THEN Num(0)
                 ELSE RDiv(Num(1), RMul(sigmas[i], sigmas[i]))], m)
      precision == inner_prod(emul(a, a), precisions)
      f == RDiv(Num(1), precision)
  IN IF constraints # {}
     THEN LET i == MinOf(constraints)
          IN [precision |-> Infinity,
              pseudo |-> delta(m, i - 1, RDiv(Num(1), a[i]))]
     ELSE IF LessThanInverse(precision, Tol9)
          THEN [precision |-> precision, pseudo |-> zero(m)]
          ELSE [precision |-> precision,
                pseudo |-> AsSeq([i \in 1 .. m |->
                                    RMul(RMul(f, precisions[i]), a[i])], m)]

\* updateAb(A, b, j, a, r, d): b -= d*a and A(:, j+1:end) -= a*r(j+1:end)
updateAb(A, b, j, a, r, d) ==
  [A |-> AsSeq([i \in 1 .. size1(A) |->
                  AsSeq([j2 \in 1 .. size2(A) |->
                           IF j2 > j + 1
                           THEN RSub(A[i][j2], RMul(a[i], r[j2]))
                           ELSE A[i][j2]], size2(A))], size1(A)),
   b |-> AsSeq([i \in 1 .. size1(A) |-> RSub(b[i], RMul(a[i], d))], size1(A))]

\* the frame of weighted_eliminate(A, b, sigmas) on entry to its loop; pseudo
\* is allocated here and written before it is read
weighted_eliminate_entry(A, b, sigmas) ==
  [pc |-> "loop", A |-> A, b |-> b, sigmas |-> sigmas,
   weights |-> reciprocal(emul(sigmas, sigmas)),
   pseudo |-> zero(size1(A)), j |-> 0, results |-> << >>]

\* one turn of the loop over the columns, for column W.j
weighted_eliminate_column(W) ==
  LET m == size1(W.A)
      n == size2(W.A)
      maxRank == IF m < n THEN m ELSE n
      j == W.j
      a == column_(W.A, j)
      wp == weightedPseudoinverse(a, W.weights)
      pseudo == wp.pseudo
      r == AsSeq([j2 \in 1 .. n |->
                    IF j2 > j + 1 THEN inner_prod(pseudo, column_(W.A, j2 - 1))
                    ELSE IF j2 = j + 1 THEN Num(1) ELSE Num(0)], n)
      d == inner_prod(pseudo, W.b)
      results == Append(W.results, [r |-> r, d |-> d, sigma |-> InvSqrt(wp.precision)])
      Ab == updateAb(W.A, W.b, j, a, r, d)
  IN IF LessThanInverse(wp.precision, Tol8)
     THEN [W EXCEPT !.pseudo = pseudo, !.j = j + 1]
     ELSE IF Len(results) >= maxRank
          THEN [W EXCEPT !.pseudo = pseudo, !.results = results, !.pc = "done"]
          ELSE [W EXCEPT !.pseudo = pseudo, !.results = results,
                         !.A = Ab.A, !.b = Ab.b, !.j = j + 1]

\* the vectors of n entries and the m x n matrices over a set of integers
VectorsOver(n, S) == {AsSeq([i \in 1 .. n |-> Num(v[i])], n) : v \in [1 .. n -> S]}

MatricesOver(m, n, S) ==
  {AsSeq(rows, m) : rows \in [1 .. m -> VectorsOver(n, S)]}

\* the tree and the symbolic driver at rest
InitNoTree ==
  /\ net = << >>
  /\ InitTree
  /\ InitEliminated

InitWE ==
  /\ \E m \in 1 .. MaxRows, n \in 1 .. MaxCols :
        \E A \in MatricesOver(m, n, {-1, 0, 1}),
           b \in VectorsOver(m, {0, 1}),
           sigmas \in VectorsOver(m, {0, 1, 2}) :
           we = weighted_eliminate_entry(A, b, sigmas)
  /\ chol = Idle
  /\ call = Idle
  /\ lf = Idle
  /\ opt = Idle
  /\ lin = Idle
  /\ InitNoTree

\* the body of the loop for the next column
WeightedEliminateColumn ==
  /\ we.pc = "loop"
  /\ we.j < size2(we.A)
  /\ we' = weighted_eliminate_column(we)
  /\ UNCHANGED << treeVars, driverVars, chol, call, lf, opt, lin >>

\* the loop has run over all columns: return results
WeightedEliminateReturn ==
  /\ we.pc = "loop"
  /\ we.j >= size2(we.A)
  /\ we' = [we EXCEPT !.pc = "done"]
  /\ UNCHANGED << treeVars, driverVars, chol, call, lf, opt, lin >>

NextWE == WeightedEliminateColumn \/ WeightedEliminateReturn

SpecWE == InitWE /\ [][NextWE]_vars

(***************************************************************************)
(* choleskyCareful and choleskyStep.  The square root beta of a pivot and   *)
(* the row divided by it are kept as the rationals they are built from.     *)
(***************************************************************************)
\* largest matrix factored
MaxDim == 2

negativePivotThreshold == Rat(-1, 10)

\* zeroPivotThreshold = 1e-6 as 1/Tol6
Tol6 == 1000000

underconstrainedPrior == Rat(1, 100000)

\* sqrt(x)
Sqrt(x) == [sqrtOf |-> x]

\* v / sqrt(x)
OverSqrt(v, x) == [num |-> v, overSqrtOf |-> x]

\* the product of two entries of a row that was divided by the same beta
MulOverSqrt(u, v) == RDiv(RMul(u.num, v.num), u.overSqrtOf)

\* sqrt(x) > 1/D for x >= 0, which is x > 1/(D*D)
SqrtGreaterThanInverse(x, D) ==
  \/ IsInf(x)
  \/ (x.n > 0 /\ (x.d \div x.n) \div D < D)

\* the n x n matrix whose entry in row i and column j (from 1) is f[i][j]
MatrixOf(f, n) == AsSeq([i \in 1 .. n |-> AsSeq(f[i], n)], n)

\* choleskyStep with every negative pivot an error
choleskyStep_ThrowOnNegative(ATA, k, order) ==
  LET n == Len(ATA)
      pivot == ATA[k + 1][k + 1]
  IN IF RLess(pivot, Num(0))
     THEN [thrown |-> TRUE, ATA |-> ATA, ret |-> FALSE]
     ELSE LET alpha == pivot
          IN IF SqrtGreaterThanInverse(alpha, Tol6)
             THEN LET V == [j \in 1 .. n |-> OverSqrt(ATA[k + 1][j], alpha)]
                  IN [thrown |-> FALSE, ret |-> TRUE,
                      ATA |-> MatrixOf([i \in 1 .. n |-> [j \in 1 .. n |->
                        IF i = k + 1 /\ j = k + 1 THEN Sqrt(alpha)
                        ELSE IF k < order - 1 /\ i = k + 1 /\ j \in (k + 2) .. order
                          THEN V[j]
                        ELSE IF k < order - 1 /\ i \in (k + 2) .. order
                                /\ j \in (k + 2) .. order
                          THEN RSub(ATA[i][j], MulOverSqrt(V[i], V[j]))
                        ELSE ATA[i][j]]], n)]
             ELSE [thrown |-> FALSE, ret |-> FALSE,
                   ATA |-> MatrixOf([i \in 1 .. n |-> [j \in 1 .. n |->
                     IF i = k + 1 /\ j = k + 1 THEN underconstrainedPrior
                     ELSE IF i = k + 1 /\ j \in (k + 2) .. order THEN Num(0)
                     ELSE ATA[i][j]]], n)]

\* choleskyStep(ATA, k, order), k from 0: the matrix after the step, whether
\* the step returned true, and whether it threw invalid_argument instead
choleskyStep(ATA, k, order) ==
  LET n == Len(ATA)
      pivot == ATA[k + 1][k + 1]
  IN IF RLess(pivot, negativePivotThreshold)
     THEN [thrown |-> TRUE, ATA |-> ATA, ret |-> FALSE]
     ELSE LET alpha == IF RLess(pivot, Num(0)) THEN Num(0) ELSE pivot
          IN IF SqrtGreaterThanInverse(alpha, Tol6)
             THEN LET V == [j \in 1 .. n |-> OverSqrt(ATA[k + 1][j], alpha)]
                  IN [thrown |-> FALSE, ret |-> TRUE,
                      ATA |-> MatrixOf([i \in 1 .. n |-> [j \in 1 .. n |->
                        IF i = k + 1 /\ j = k + 1 THEN Sqrt(alpha)
                        ELSE IF k < order - 1 /\ i = k + 1 /\ j \in (k + 2) .. order
                          THEN V[j]
                        ELSE IF k < order - 1 /\ i \in (k + 2) .. order
                                /\ j \in (k + 2) .. order
                          THEN RSub(ATA[i][j], MulOverSqrt(V[i], V[j]))
                        ELSE ATA[i][j]]], n)]
             ELSE [thrown |-> FALSE, ret |-> FALSE,
                   ATA |-> MatrixOf([i \in 1 .. n |-> [j \in 1 .. n |->
                     IF i = k + 1 /\ j = k + 1 THEN underconstrainedPrior
                     ELSE IF i = k + 1 /\ j \in (k + 2) .. order THEN Num(0)
                     ELSE ATA[i][j]]], n)]

\* choleskyCareful(ATA, order) up to its loop; alphas lists the pivots read,
\* result is what the call returned (nothing so far)
choleskyCareful_entry(ATA, order) ==
  [pc |-> "loop", ATA |-> ATA,
   order |-> IF order < 0 THEN Len(ATA) ELSE order,
   k |-> 0, maxrank |-> 0, fullRank |-> TRUE, alphas |-> << >>,
   result |-> << >>]

\* one pass of the loop of choleskyCareful
choleskyCareful_step(C) ==
  LET s == choleskyStep(C.ATA, C.k, C.order)
      read == Append(C.alphas, C.ATA[C.k + 1][C.k + 1])
  IN IF s.thrown
     THEN [C EXCEPT !.pc = "thrown", !.alphas = read]
     ELSE [C EXCEPT !.ATA = s.ATA, !.alphas = read, !.k = C.k + 1,
                    !.maxrank = IF s.ret THEN C.k + 1 ELSE C.maxrank,
                    !.fullRank = IF s.ret THEN C.fullRank ELSE FALSE]

\* pivots and couplings of the matrices factored: the thresholds, values on
\* both sides of them, and large pivots that leave a small negative remainder
DiagonalValues ==
  {Rat(-1, 5), Rat(-1, 10), Rat(-1, 20), Num(0), Num(1), Num(10), Num(20)}

OffDiagonalValues == {Num(0), Num(1)}

\* symmetric matrices of n rows
SymmetricMatrices(n) ==
  {MatrixOf([i \in 1 .. n |-> [j \in 1 .. n |->
      IF i = j THEN dg[i] ELSE IF i < j THEN off[<< i, j >>] ELSE off[<< j, i >>]]], n) :
    dg \in [1 .. n -> DiagonalValues],
    off \in [{p \in (1 .. n) \X (1 .. n) : p[1] < p[2]} -> OffDiagonalValues]}

InitChol ==
  /\ \E n \in 1 .. MaxDim :
        \E ATA \in SymmetricMatrices(n), order \in {-1} \cup (0 .. n) :
           chol = choleskyCareful_entry(ATA, order)
  /\ we = Idle
  /\ call = Idle
  /\ lf = Idle
  /\ opt = Idle
  /\ lin = Idle
  /\ InitNoTree

\* the body of the loop for row k
CholeskyStep ==
  /\ chol.pc = "loop"
  /\ chol.k < chol.order
  /\ chol' = choleskyCareful_step(chol)
  /\ UNCHANGED << treeVars, driverVars, we, call, lf, opt, lin >>

\* return make_pair(maxrank, fullRank)
CholeskyReturn ==
  /\ chol.pc = "loop"
  /\ chol.k >= chol.order
  /\ chol' = [chol EXCEPT !.pc = "done",
                          !.result = << chol.maxrank, chol.fullRank >>]
  /\ UNCHANGED << treeVars, driverVars, we, call, lf, opt, lin >>

NextChol == CholeskyStep \/ CholeskyReturn

SpecChol == InitChol /\ [][NextChol]_vars

(***************************************************************************)
(* backSubstituteUpper (both argument orders) and backSubstituteLower.      *)
(* Their test for a square matrix is compiled only without NDEBUG; an       *)
(* element read beyond the rows of the matrix is undefined behaviour, whose *)
(* outcomes are a fault or a value left in memory.                          *)
(***************************************************************************)
BackSubstitutions ==
  {"backSubstituteUpper", "backSubstituteUpperT", "backSubstituteLower"}

\* f[lo] + ... + f[hi]
RECURSIVE RSum(_, _, _)
RSum(f, lo, hi) == IF lo > hi THEN Num(0) ELSE RAdd(f[lo], RSum(f, lo + 1, hi))

\* the loop of backSubstituteUpper(U, b, unit) from row i down to row 1
RECURSIVE backSubstituteUpper_rows(_, _, _, _, _)
backSubstituteUpper_rows(U, b, unit, i, result) ==
  IF i = 0 THEN result
  ELSE LET n == Len(b)
           z == RSub(b[i], RSum([j \in 1 .. n |->
                   IF j > i THEN RMul(U[i][j], result[j]) ELSE Num(0)], i + 1, n))
           zi == IF unit THEN z ELSE RDiv(z, U[i][i])
       IN backSubstituteUpper_rows(U, b, unit, i - 1, [result EXCEPT ![i] = zi])

\* the loop of backSubstituteUpper(b, U, unit) from row i up to row n
RECURSIVE backSubstituteUpperT_rows(_, _, _, _, _)
backSubstituteUpperT_rows(b, U, unit, i, result) ==
  IF i > Len(b) THEN result
  ELSE LET z == RSub(b[i], RSum([j \in 1 .. Len(b) |->
                   IF j < i THEN RMul(U[j][i], result[j]) ELSE Num(0)], 1, i - 1))
           zi == IF unit THEN z ELSE RDiv(z, U[i][i])
       IN backSubstituteUpperT_rows(b, U, unit, i + 1, [result EXCEPT ![i] = zi])

\* the loop of backSubstituteLower(L, b, unit) from row i up to row n
RECURSIVE backSubstituteLower_rows(_, _, _, _, _)
backSubstituteLower_rows(L, b, unit, i, result) ==
  IF i > Len(b) THEN result
  ELSE LET z == RSub(b[i], RSum([j \in 1 .. Len(b) |->
                   IF j < i THEN RMul(L[i][j], result[j]) ELSE Num(0)], 1, i - 1))
           zi == IF unit THEN z ELSE RDiv(z, L[i][i])
       IN backSubstituteLower_rows(L, b, unit, i + 1, [result EXCEPT ![i] = zi])

\* the elements (row, column, from 1) of the matrix that the loop of fn reads
\* for a result of n entries
ElementsRead(fn, n, unit) ==
  LET diagonal == IF unit THEN {} ELSE {<< i, i >> : i \in 1 .. n}
      above == {p \in (1 .. n) \X (1 .. n) : p[1] < p[2]}
      below == {p \in (1 .. n) \X (1 .. n) : p[2] < p[1]}
  IN diagonal \cup (IF fn = "backSubstituteLower" THEN below ELSE above)

\* some element read lies outside the m x n matrix
ReadsOutside(fn, m, n, unit) ==
  \E p \in ElementsRead(fn, n, unit) : p[1] > m \/ p[2] > n

\* values an element read outside the matrix may have
StrayValues == {1, 2}

\* the rows of U followed by rows of stray values, n rows at least
WithStrayRows(U, stray) ==
  IF size1(U) >= size2(U) THEN U
  ELSE U \o SubSeq(stray, size1(U) + 1, size2(U))

\* the call of fn with the matrix U, the vector b and the flag unit, in a
\* build with or without NDEBUG
BackSubstituteCall(fn, U, b, unit, ndebug) ==
  [pc |-> "called", fn |-> fn, U |-> U, b |-> b, unit |-> unit,
   NDEBUG |-> ndebug, result |-> << >>, error |-> ""]

\* the call up to its return or throw, reading stray where U has no row
backSubstitute(c, stray) ==
  LET m == size1(c.U)
      n == size2(c.U)
      U == WithStrayRows(c.U, stray)
  IN IF ~c.NDEBUG /\ m # n
     THEN [c EXCEPT !.pc = "thrown", !.error = "invalid_argument"]
     ELSE [c EXCEPT !.pc = "returned", !.result =
            IF c.fn = "backSubstituteUpper"
              THEN backSubstituteUpper_rows(U, c.b, c.unit, n, zero(n))
            ELSE IF c.fn = "backSubstituteUpperT"
              THEN backSubstituteUpperT_rows(c.b, U, c.unit, 1, zero(n))
            ELSE backSubstituteLower_rows(U, c.b, c.unit, 1, zero(n))]

InitBack ==
  /\ \E m \in 1 .. MaxRows, n \in 1 .. MaxCols :
        \E U \in MatricesOver(m, n, {1, 2}), b \in VectorsOver(n, {0, 1}),
           fn \in BackSubstitutions, unit \in BOOLEAN, ndebug \in BOOLEAN :
           call = BackSubstituteCall(fn, U, b, unit, ndebug)
  /\ we = Idle
  /\ chol = Idle
  /\ lf = Idle
  /\ opt = Idle
  /\ lin = Idle
  /\ InitNoTree

\* the call runs to its return or to its throw
BackSubstitute ==
  /\ call.pc = "called"
  /\ \E stray \in MatricesOver(size2(call.U), size2(call.U), StrayValues) :
        call' = backSubstitute(call, stray)
  /\ UNCHANGED << treeVars, driverVars, we, chol, lf, opt, lin >>

\* a read outside the matrix ends the process
BackSubstituteFault ==
  /\ call.pc = "called"
  /\ call.NDEBUG
  /\ ReadsOutside(call.fn, size1(call.U), size2(call.U), call.unit)
  /\ call' = [call EXCEPT !.pc = "fault"]
  /\ UNCHANGED << treeVars, driverVars, we, chol, lf, opt, lin >>

NextBack == BackSubstitute \/ BackSubstituteFault

SpecBack == InitBack /\ [][NextBack]_vars

(***************************************************************************)
(* LinearFactor: the map As_ from keys to matrices (a set of key-matrix     *)
(* pairs with one pair a key at most), the right-hand side b_ and sigmas_.  *)
(***************************************************************************)
FactorKeys == {"x1", "x2"}

\* repeat(n, value)
repeat(n, value) == AsSeq([i \in 1 .. n |-> value], n)

\* ones(n)
ones(n) == repeat(n, Num(1))

\* As_.insert replaced by an assignment As_[key] = A
MapInsert_Overwrite(As, key, A) ==
  {t \in As : t[1] # key} \cup {<< key, A >>}

\* As_.insert(make_pair(key, A)): a key the map holds keeps its matrix
MapInsert(As, key, A) ==
  IF \E t \in As : t[1] = key THEN As ELSE As \cup {<< key, A >>}

\* As_.insert(terms[i]) for the terms from the first to the last
RECURSIVE MapInsertAll(_, _)
MapInsertAll(As, terms) ==
  IF terms = << >> THEN As
  ELSE MapInsertAll(MapInsert(As, Head(terms)[1], Head(terms)[2]), Tail(terms))

\* the constructor from terms, b_in and a vector of sigmas
LinearFactorOf(terms, b_in, sigmas) ==
  [pc |-> "object", As_ |-> MapInsertAll({}, terms), b_ |-> b_in,
   sigmas_ |-> sigmas]

\* LinearFactor::insert(key, A)
insertA(F, key, A) == [F EXCEPT !.As_ = MapInsert(F.As_, key, A)]

\* LinearFactor::set_A(key, A)
set_A(F, key, A) == insertA(F, key, A)

\* LinearFactor::set_b(b)
set_b(F, b) == [F EXCEPT !.b_ = b]

\* arguments of the constructors and mutators
BlockArgs == UNION {MatricesOver(m, 1, {1}) : m \in 1 .. MaxRows}

VectorArgs == UNION {VectorsOver(m, {0, 1}) : m \in 1 .. MaxRows}

SigmaArgs == {Num(1), Num(2)}

TermArgs == FactorKeys \X BlockArgs

InitFactor ==
  /\ lf = Idle
  /\ we = Idle
  /\ chol = Idle
  /\ call = Idle
  /\ opt = Idle
  /\ lin = Idle
  /\ InitNoTree

\* LinearFactor()
ConstructDefault ==
  /\ lf = Idle
  /\ lf' = LinearFactorOf(<< >>, << >>, << >>)
  /\ UNCHANGED << treeVars, driverVars, we, chol, call, opt, lin >>

\* LinearFactor(b_in)
ConstructNull ==
  /\ lf = Idle
  /\ \E b_in \in VectorArgs : lf' = LinearFactorOf(<< >>, b_in, ones(Len(b_in)))
  /\ UNCHANGED << treeVars, driverVars, we, chol, call, opt, lin >>

\* LinearFactor(key1, A1, b_in, sigma)
ConstructUnary ==
  /\ lf = Idle
  /\ \E t1 \in TermArgs, b_in \in VectorArgs, sigma \in SigmaArgs :
        lf' = LinearFactorOf(<< t1 >>, b_in, repeat(Len(b_in), sigma))
  /\ UNCHANGED << treeVars, driverVars, we, chol, call, opt, lin >>

\* LinearFactor(key1, A1, key2, A2, b_in, sigma)
ConstructBinary ==
  /\ lf = Idle
  /\ \E t1 \in TermArgs, t2 \in TermArgs, b_in \in VectorArgs, sigma \in SigmaArgs :
        lf' = LinearFactorOf(<< t1, t2 >>, b_in, repeat(Len(b_in), sigma))
  /\ UNCHANGED << treeVars, driverVars, we, chol, call, opt, lin >>

\* LinearFactor(key1, A1, key2, A2, key3, A3, b_in, sigma)
ConstructTernary ==
  /\ lf = Idle
  /\ \E t1 \in TermArgs, t2 \in TermArgs, t3 \in TermArgs,
        b_in \in VectorArgs, sigma \in SigmaArgs :
        lf' = LinearFactorOf(<< t1, t2, t3 >>, b_in, repeat(Len(b_in), sigma))
  /\ UNCHANGED << treeVars, driverVars, we, chol, call, opt, lin >>

\* LinearFactor(terms, b_in, sigma)
ConstructTerms ==
  /\ lf = Idle
  /\ \E terms \in {<< >>} \cup {<< t >> : t \in TermArgs} \cup (TermArgs \X TermArgs),
        b_in \in VectorArgs, sigma \in SigmaArgs :
        lf' = LinearFactorOf(terms, b_in, repeat(Len(b_in), sigma))
  /\ UNCHANGED << treeVars, driverVars, we, chol, call, opt, lin >>

\* LinearFactor(terms, b_in, sigmas)
ConstructTermsSigmas ==
  /\ lf = Idle
  /\ \E terms \in {<< >>} \cup {<< t >> : t \in TermArgs} \cup (TermArgs \X TermArgs),
        b_in \in VectorArgs, m \in 1 .. MaxRows :
        \E sigmas \in VectorsOver(m, {1, 2}) :
           lf' = LinearFactorOf(terms, b_in, sigmas)
  /\ UNCHANGED << treeVars, driverVars, we, chol, call, opt, lin >>

FactorInsert ==
  /\ lf.pc = "object"
  /\ \E t \in TermArgs : lf' = insertA(lf, t[1], t[2])
  /\ UNCHANGED << treeVars, driverVars, we, chol, call, opt, lin >>

FactorSetA ==
  /\ lf.pc = "object"
  /\ \E t \in TermArgs : lf' = set_A(lf, t[1], t[2])
  /\ UNCHANGED << treeVars, driverVars, we, chol, call, opt, lin >>

FactorSetB ==
  /\ lf.pc = "object"
  /\ \E b \in VectorArgs : lf' = set_b(lf, b)
  /\ UNCHANGED << treeVars, driverVars, we, chol, call, opt, lin >>

NextFactor ==
  \/ ConstructDefault
  \/ ConstructNull
  \/ ConstructUnary
  \/ ConstructBinary
  \/ ConstructTernary
  \/ ConstructTerms
  \/ ConstructTermsSigmas
  \/ FactorInsert
  \/ FactorSetA
  \/ FactorSetB

SpecFactor == InitFactor /\ [][NextFactor]_vars

(***************************************************************************)
(* The generic constructor BayesTree(bayesNet): the symbolic tree of the    *)
(* net is built first and then copied clique by clique, each clique with    *)
(* the combination of the conditionals of its frontal keys.                 *)
(***************************************************************************)
firstFrontalKey(c) == c.keys[1]

\* CONDITIONAL::Combine: the conditional on the frontal keys of the given
\* conditionals, with the parents of the last one
Combine(cliqueConditionals) ==
  [keys |-> AsSeq([i \in 1 .. Len(cliqueConditionals) |->
                     firstFrontalKey(cliqueConditionals[i])],
                  Len(cliqueConditionals))
            \o parents(cliqueConditionals[Len(cliqueConditionals)]),
   nrFrontals |-> Len(cliqueConditionals)]

\* no conditional in a slot of the vector of conditionals
NoConditional == [keys |-> << >>, nrFrontals |-> 0]

\* the loop that fills the vector conditionals from the conditional at place
\* i of the net on; thrown: one of its three tests threw invalid_argument
RECURSIVE IndexConditionals(_, _, _)
IndexConditionals(conditionals, bayesNet, i) ==
  IF i > Len(bayesNet) THEN [conditionals |-> conditionals, thrown |-> FALSE]
  ELSE LET c == bayesNet[i] IN
       IF \/ c.nrFrontals # 1
          \/ firstFrontalKey(c) >= Len(conditionals)
          \/ VecGet(conditionals, firstFrontalKey(c)) # NoConditional
       THEN [conditionals |-> conditionals, thrown |-> TRUE]
       ELSE IndexConditionals(VecSet(conditionals, firstFrontalKey(c), c),
                              bayesNet, i + 1)

RECURSIVE recursiveTreeBuild_UnderParent(_, _, _, _, _)
RECURSIVE recursiveTreeBuild(_, _, _, _, _)
RECURSIVE recursiveTreeBuildChildren(_, _, _, _, _)

\* recursiveTreeBuild that hands its own parent on to the children
recursiveTreeBuild_UnderParent(W, sbt, symbolic, conditionals, parent) ==
  LET fs == frontals(sbt.heap[symbolic].conditional)
      cliqueConditionals ==
        AsSeq([i \in 1 .. Len(fs) |-> VecGet(conditionals, fs[i])], Len(fs))
      thisClique == Len(W.heap) + 1
      W1 == addClique(W, Combine(cliqueConditionals), parent)
  IN recursiveTreeBuildChildren(W1, sbt, sbt.heap[symbolic].children_,
                                conditionals,
                                IF parent = NULL THEN thisClique ELSE parent)

\* recursiveTreeBuild(symbolic, conditionals, parent): the clique of the
\* symbolic clique is added under parent, then its children under it
recursiveTreeBuild(W, sbt, symbolic, conditionals, parent) ==
  LET fs == frontals(sbt.heap[symbolic].conditional)
      cliqueConditionals ==
        AsSeq([i \in 1 .. Len(fs) |-> VecGet(conditionals, fs[i])], Len(fs))
      thisClique == Len(W.heap) + 1
      W1 == addClique(W, Combine(cliqueConditionals), parent)
  IN recursiveTreeBuildChildren(W1, sbt, sbt.heap[symbolic].children_,
                                conditionals, thisClique)

\* the loop of recursiveTreeBuild over the children of the symbolic clique
recursiveTreeBuildChildren(W, sbt, children, conditionals, thisClique) ==
  IF children = << >> THEN W
  ELSE recursiveTreeBuildChildren(
         recursiveTreeBuild(W, sbt, Head(children), conditionals, thisClique),
         sbt, Tail(children), conditionals, thisClique)

\* BayesTree<CONDITIONAL>(bayesNet) for a net whose symbolic tree has a root
BayesTreeGeneric(bayesNet) ==
  LET s == BayesTree(bayesNet)
      sbt == s.tree
      n == lastFrontalKey(sbt.heap[sbt.root_].conditional) + 1
      ix == IndexConditionals(AsSeq([i \in 1 .. n |-> NoConditional], n),
                              bayesNet, 1)
  IN IF s.error \/ ix.thrown THEN [tree |-> EmptyTree, thrown |-> TRUE]
     ELSE [tree |-> recursiveTreeBuild(EmptyTree, sbt, sbt.root_,
                                       ix.conditionals, NULL),
           thrown |-> FALSE]

\* a Bayes net with one root: exactly one conditional has no parents
OneRoot(bayesNet) ==
  Cardinality({i \in 1 .. Len(bayesNet) : parents(bayesNet[i]) = << >>}) = 1

\* the generic constructor called on the finished Bayes net; a constructor
\* that throws leaves no tree
ConstructGeneric ==
  /\ ordering = << >>
  /\ ~aborted
  /\ heap = << >>
  /\ OneRoot(net)
  /\ ~BayesTreeGeneric(net).thrown
  /\ SetThis(BayesTreeGeneric(net).tree)
  /\ rev' = Other
  /\ fwd' = Other
  /\ UNCHANGED << net, aborted, driverVars, numericVars >>

NextGeneric == EliminateOne \/ ConstructGeneric

SpecGeneric == InitElim /\ [][NextGeneric]_vars

(***************************************************************************)
(* insert(subtree): attach a detached clique with everything below it.     *)
(***************************************************************************)
RECURSIVE fillNodesIndex(_, _, _)
RECURSIVE fillNodesIndexChildren(_, _, _)

\* fillNodesIndex(subtree): point the index at the clique for each of its
\* frontal keys, then at the cliques below it
fillNodesIndex(nodes, h, subtree) ==
  fillNodesIndexChildren(
    VecSetAll(nodes, frontals(h[subtree].conditional), subtree),
    h, h[subtree].children_)

fillNodesIndexChildren(nodes, h, children) ==
  IF children = << >> THEN nodes
  ELSE fillNodesIndexChildren(fillNodesIndex(nodes, h, Head(children)),
                              h, Tail(children))

\* insert(subtree) that attaches the subtree under the root
insertSubtree_UnderRoot(W, subtree) ==
  IF subtree = NULL
  THEN [tree |-> W, error |-> FALSE, assertFailed |-> FALSE, outside |-> FALSE]
  ELSE LET cond == W.heap[subtree].conditional
           ps   == parents(cond)
           parentRepresentative == findParentClique(ps)
       IN IF ps # << >> /\ ~InIndex(W, parentRepresentative)
          THEN [tree |-> W, error |-> TRUE, assertFailed |-> FALSE,
                outside |-> FALSE]
          ELSE LET parent == W.root_
                   W1 == IF ps = << >> THEN [W EXCEPT !.root_ = subtree]
                         ELSE [W EXCEPT !.heap =
                                 [W.heap EXCEPT ![parent].children_ = Append(@, subtree),
                                                ![subtree].parent_ = parent]]
                   nodes1 == IF \/ Len(W1.nodes_) = 0
                                \/ MaxOf(Range(frontals(cond))) > Len(W1.nodes_) - 1
                             THEN VecResize(W1.nodes_, lastFrontalKey(cond) + 1)
                             ELSE W1.nodes_
               IN [tree |-> [W1 EXCEPT !.nodes_ = fillNodesIndex(nodes1, W1.heap, subtree)],
                   error |-> FALSE,
                   assertFailed |-> ps = << >> /\ W.root_ # NULL,
                   outside |-> \E c \in Subtree(W1, subtree) :
                                  \E k \in Range(frontals(W1.heap[c].conditional)) :
                                     k >= Len(nodes1)]

\* insert(subtree) that does not set the parent link of the subtree
insertSubtree_NoParentLink(W, subtree) ==
  IF subtree = NULL
  THEN [tree |-> W, error |-> FALSE, assertFailed |-> FALSE, outside |-> FALSE]
  ELSE LET cond == W.heap[subtree].conditional
           ps   == parents(cond)
           parentRepresentative == findParentClique(ps)
       IN IF ps # << >> /\ ~InIndex(W, parentRepresentative)
          THEN [tree |-> W, error |-> TRUE, assertFailed |-> FALSE,
                outside |-> FALSE]
          ELSE LET parent == CliqueOf(W, parentRepresentative)
                   W1 == IF ps = << >> THEN [W EXCEPT !.root_ = subtree]
                         ELSE [W EXCEPT !.heap =
                                 [W.heap EXCEPT ![parent].children_ = Append(@, subtree)]]
                   nodes1 == IF \/ Len(W1.nodes_) = 0
                                \/ MaxOf(Range(frontals(cond))) > Len(W1.nodes_) - 1
                             THEN VecResize(W1.nodes_, lastFrontalKey(cond) + 1)
                             ELSE W1.nodes_
               IN [tree |-> [W1 EXCEPT !.nodes_ = fillNodesIndex(nodes1, W1.heap, subtree)],
                   error |-> FALSE,
                   assertFailed |-> ps = << >> /\ W.root_ # NULL,
                   outside |-> \E c \in Subtree(W1, subtree) :
                                  \E k \in Range(frontals(W1.heap[c].conditional)) :
                                     k >= Len(nodes1)]

\* insert(subtree).  error: the index lookup of the parent representative
\* failed; assertFailed: assert(!root_) does not hold; outside: fillNodesIndex
\* writes the index at a key beyond its size
insertSubtree(W, subtree) ==
  IF subtree = NULL
  THEN [tree |-> W, error |-> FALSE, assertFailed |-> FALSE, outside |-> FALSE]
  ELSE LET cond == W.heap[subtree].conditional
           ps   == parents(cond)
           parentRepresentative == findParentClique(ps)
       IN IF ps # << >> /\ ~InIndex(W, parentRepresentative)
          THEN [tree |-> W, error |-> TRUE, assertFailed |-> FALSE,
                outside |-> FALSE]
          ELSE LET parent == CliqueOf(W, parentRepresentative)
                   W1 == IF ps = << >> THEN [W EXCEPT !.root_ = subtree]
                         ELSE [W EXCEPT !.heap =
                                 [W.heap EXCEPT ![parent].children_ = Append(@, subtree),
                                                ![subtree].parent_ = parent]]
                   nodes1 == IF \/ Len(W1.nodes_) = 0
                                \/ MaxOf(Range(frontals(cond))) > Len(W1.nodes_) - 1
                             THEN VecResize(W1.nodes_, lastFrontalKey(cond) + 1)
                             ELSE W1.nodes_
               IN [tree |-> [W1 EXCEPT !.nodes_ = fillNodesIndex(nodes1, W1.heap, subtree)],
                   error |-> FALSE,
                   assertFailed |-> ps = << >> /\ W.root_ # NULL,
                   outside |-> \E c \in Subtree(W1, subtree) :
                                  \E k \in Range(frontals(W1.heap[c].conditional)) :
                                     k >= Len(nodes1)]

\* the caller takes an orphan off its list and hands it to insert(subtree); a
\* failed assert ends a debug build, a write outside the index is a fault
InsertSubtree(subtree) ==
  /\ ~aborted
  /\ LET r == insertSubtree(This, subtree) IN
     /\ aborted' \in {a \in BOOLEAN : (a => (r.assertFailed \/ r.outside))
                                      /\ (r.outside => a)}
     /\ SetThis(IF aborted' \/ r.error THEN This
                ELSE [r.tree EXCEPT !.orphans = ListRemove(@, subtree)])
  /\ rev' = Other
  /\ fwd' = Other
  /\ UNCHANGED << net, driverVars, numericVars >>

\* inserts, removals and re-attachments in any order; removeTop(keys) is
\* removePath of the cliques of its keys
NextAttach ==
  \/ \E i \in 1 .. Len(bn) : Insert(bn[i])
  \/ \E clique \in PathArgs : RemovePath(clique)
  \/ \E subtree \in {NULL} \cup Range(orphans) : InsertSubtree(subtree)

SpecAttach == InitBuilt /\ [][NextAttach]_vars

(***************************************************************************)
(* removePath of a built tree, undone by the caller: the conditionals of bn *)
(* are inserted again from the front of bn, then each orphan is attached.   *)
(***************************************************************************)
\* removePath(clique, bn, orphans) on the tree as the constructor left it
RemovePathOfBuilt(clique) ==
  /\ rev = Len(net)
  /\ bn = << >>
  /\ RemovePath(clique)

\* insert of the conditional at the front of bn, which the caller takes off bn
ReinsertRemoved ==
  /\ ~aborted
  /\ rev = Other
  /\ bn # << >>
  /\ LET r == insert(This, Head(bn)) IN
     /\ ~r.error
     /\ aborted' \in {a \in BOOLEAN : a => r.assertFailed}
     /\ SetThis(IF aborted' THEN This ELSE [r.tree EXCEPT !.bn = Tail(bn)])
  /\ UNCHANGED << net, rev, fwd, driverVars, numericVars >>

\* insert(subtree) of an orphan once bn has been inserted again
AttachOrphan ==
  /\ rev = Other
  /\ bn = << >>
  /\ \E subtree \in Range(orphans) : InsertSubtree(subtree)

NextReattach ==
  \/ \E clique \in PathArgs : RemovePathOfBuilt(clique)
  \/ ReinsertRemoved
  \/ AttachOrphan

SpecReattach == InitBuilt /\ [][NextReattach]_vars


(***************************************************************************)
(* LevenbergMarquardtOptimizer::iterate.  opt holds state_ (lambda, error, *)
(* values, the two counters) and params_ (lambdaFactor, lambdaUpperBound); *)
(* values are named by the number of the try that produced them, 0 for the *)
(* initial ones.  What solve() and graph_.error() give depends on the      *)
(* graph, so every try draws its outcome: the error of the new values, or  *)
(* the IndeterminantLinearSystemException.  entry and tries record the     *)
(* state at the call of iterate and the tries made since.                  *)
(***************************************************************************)
\* calls of iterate() made on one optimizer
MaxLMIterations == 1

\* graph_.error() returns one of 0 .. MaxError
MaxError == 2

Errors == {Num(e) : e \in 0 .. MaxError}

\* params_.lambdaInitial, params_.lambdaFactor and params_.lambdaUpperBound
LambdaInitials == {Rat(1, 4), Num(1), Num(8)}

LambdaFactors == {Num(2), Num(10)}

LambdaUpperBounds == {Num(1), Num(5)}

IndeterminantLinearSystemException == [thrown |-> "IndeterminantLinearSystemException"]

TryOutcomes == Errors \cup {IndeterminantLinearSystemException}

\* the test of the try block with < for <=
tryAccepts_StrictDecrease(state, error) == RLess(error, state.error)

\* error <= state_.error
tryAccepts(state, error) == ~RLess(state.error, error)

\* one pass of the while(true) loop: the state after it and whether it left
\* the loop
tryLambda(state, outcome) ==
  LET counted == [state EXCEPT !.totalNumberInnerIterations = @ + 1]
      newValues == counted.totalNumberInnerIterations
      conservative ==
        IF ~RLess(counted.lambda, counted.lambdaUpperBound)
        THEN [state |-> counted, break |-> TRUE]
        ELSE [state |-> [counted EXCEPT !.lambda = RMul(@, counted.lambdaFactor)],
              break |-> FALSE]
  IN IF outcome = IndeterminantLinearSystemException THEN conservative
     ELSE IF tryAccepts(counted, outcome)
     THEN [state |-> [counted EXCEPT !.values = newValues,
                                     !.error = outcome,
                                     !.lambda = RDiv(@, counted.lambdaFactor)],
           break |-> TRUE]
     ELSE conservative

LMState(lambda, lambdaFactor, lambdaUpperBound, error) ==
  [pc |-> "returned", lambda |-> lambda, error |-> error, values |-> 0,
   totalNumberInnerIterations |-> 0, iterations |-> 0,
   lambdaFactor |-> lambdaFactor, lambdaUpperBound |-> lambdaUpperBound,
   entry |-> [lambda |-> lambda, error |-> error, values |-> 0],
   tries |-> << >>]

InitLM ==
  /\ opt \in {LMState(lambda, lambdaFactor, lambdaUpperBound, error) :
                lambda \in LambdaInitials, lambdaFactor \in LambdaFactors,
                lambdaUpperBound \in LambdaUpperBounds, error \in Errors}
  /\ we = Idle
  /\ chol = Idle
  /\ call = Idle
  /\ lf = Idle
  /\ lin = Idle
  /\ InitNoTree

\* iterate() up to the while loop
IterateEnter ==
  /\ opt.pc = "returned"
  /\ opt.iterations < MaxLMIterations
  /\ opt' = [opt EXCEPT !.pc = "loop",
                        !.entry = [lambda |-> opt.lambda, error |-> opt.error,
                                   values |-> opt.values],
                        !.tries = << >>]
  /\ UNCHANGED << treeVars, driverVars, we, chol, call, lf, lin >>

\* one pass of the loop; leaving it, iterate() counts the iteration and returns
IterateTry(outcome) ==
  /\ opt.pc = "loop"
  /\ LET r == tryLambda(opt, outcome)
         tried == [r.state EXCEPT !.tries =
                     Append(@, [lambda |-> opt.lambda, outcome |-> outcome,
                                newValues |-> r.state.totalNumberInnerIterations])]
     IN opt' = IF r.break
               THEN [tried EXCEPT !.pc = "returned", !.iterations = @ + 1]
               ELSE tried
  /\ UNCHANGED << treeVars, driverVars, we, chol, call, lf, lin >>

IterateLoop == \E outcome \in TryOutcomes : IterateTry(outcome)

NextLM == IterateEnter \/ IterateLoop

SpecLM == InitLM /\ [][NextLM]_vars

\* a running call of iterate() goes on running
SpecLMLive == SpecLM /\ WF_vars(IterateLoop)


(***************************************************************************)
(* NonlinearOptimizer::levenbergMarquardt.  An optimizer is immutable and  *)
(* every step returns a new one, so opt holds the optimizer the running    *)
(* call of levenbergMarquardt was made on (lambda_, error_, config_), the  *)
(* arguments of that call, and inside try_lambda the lambda_ of the        *)
(* cautious optimizer and the factor.  Configs are named by the number of  *)
(* the iterateLM call that produced them, 0 for the initial one.  The      *)
(* error of a new config depends on the graph and is drawn.  called and    *)
(* iterateLMCalls record the arguments of the outermost call and the       *)
(* lambdaFactor given to each call of iterateLM.                           *)
(***************************************************************************)
\* the maxIterations a caller passes is one of 1 .. MaxIterationsArg
MaxIterationsArg == 2

\* calls of iterateLM followed in one run
MaxLMCalls == 4

\* passes of try_lambda followed in one call of iterateLM
MaxTries == 2

\* relativeThreshold and absoluteThreshold: never met by a decrease >= 0, or
\* met by a decrease below 1
Thresholds == {Num(0), Num(1)}

\* the default of the lambdaFactor parameter, declared with the class
DefaultLambdaFactors == {Num(2), Num(10)}

\* the conversion of a positive double to int
DoubleToInt(x) == x.n \div x.d

\* check_convergence; 0/0 compares false with everything
check_convergence(relativeErrorTreshold, absoluteErrorTreshold, currentError, newError) ==
  LET absoluteDecrease == RSub(currentError, newError)
      relativeDecrease == RDiv(absoluteDecrease, currentError)
  IN \/ /\ ~(absoluteDecrease.n = 0 /\ currentError.n = 0)
        /\ RLess(relativeDecrease, relativeErrorTreshold)
     \/ RLess(absoluteDecrease, absoluteErrorTreshold)

\* the arguments of next.levenbergMarquardt(relativeThreshold,
\* absoluteThreshold, verbosity, lambdaFactor)
levenbergMarquardt_Recursion(o) ==
  [maxIterations |-> DoubleToInt(o.lambdaFactor),
   lambdaFactor |-> o.defaultLambdaFactor]

\* levenbergMarquardt after iterateLM returned next
levenbergMarquardt_Continue(o, next) ==
  LET converged == check_convergence(o.relativeThreshold, o.absoluteThreshold,
                                     o.error_, next.error_)
      args == levenbergMarquardt_Recursion(o)
  IN IF converged \/ o.maxIterations <= 1
     THEN [o EXCEPT !.pc = "done", !.lambda_ = next.lambda_,
                    !.error_ = next.error_, !.config_ = next.config_]
     ELSE [o EXCEPT !.pc = "levenbergMarquardt", !.lambda_ = next.lambda_,
                    !.error_ = next.error_, !.config_ = next.config_,
                    !.maxIterations = args.maxIterations,
                    !.lambdaFactor = args.lambdaFactor]

\* one call of try_lambda on the optimizer with lambda o.cautious: the
\* optimizer it returns, or the
\* lambda_ of the cautious optimizer it calls itself on next
try_lambda(o, newError) ==
  IF ~RLess(o.error_, newError)
  THEN [returns |-> TRUE,
        next |-> [lambda_ |-> RDiv(o.cautious, o.factor), error_ |-> newError,
                  config_ |-> Len(o.iterateLMCalls)]]
  ELSE [returns |-> FALSE, cautious |-> RMul(o.cautious, o.factor)]

NLOState(error, relativeThreshold, absoluteThreshold, maxIterations, lambdaFactor, defaultLambdaFactor) ==
  [pc |-> "levenbergMarquardt", lambda_ |-> Num(1), error_ |-> error,
   config_ |-> 0, relativeThreshold |-> relativeThreshold,
   absoluteThreshold |-> absoluteThreshold, maxIterations |-> maxIterations,
   lambdaFactor |-> lambdaFactor, defaultLambdaFactor |-> defaultLambdaFactor,
   cautious |-> Num(1), factor |-> lambdaFactor, tries |-> 0,
   called |-> [maxIterations |-> maxIterations, lambdaFactor |-> lambdaFactor],
   iterateLMCalls |-> << >>]

InitNLO ==
  /\ opt \in {NLOState(error, relativeThreshold, absoluteThreshold,
                       maxIterations, lambdaFactor, defaultLambdaFactor) :
                error \in Errors, relativeThreshold \in Thresholds,
                absoluteThreshold \in Thresholds,
                maxIterations \in 1 .. MaxIterationsArg,
                lambdaFactor \in LambdaFactors,
                defaultLambdaFactor \in DefaultLambdaFactors}
  /\ we = Idle
  /\ chol = Idle
  /\ call = Idle
  /\ lf = Idle
  /\ lin = Idle
  /\ InitNoTree

\* levenbergMarquardt calls iterateLM, which calls try_lambda
IterateLM ==
  /\ opt.pc = "levenbergMarquardt"
  /\ Len(opt.iterateLMCalls) < MaxLMCalls
  /\ opt' = [opt EXCEPT !.pc = "try_lambda", !.cautious = opt.lambda_,
                        !.factor = opt.lambdaFactor, !.tries = 0,
                        !.iterateLMCalls = Append(@, opt.lambdaFactor)]
  /\ UNCHANGED << treeVars, driverVars, we, chol, call, lf, lin >>

\* try_lambda finds an error that did not grow and returns through iterateLM
\* to levenbergMarquardt, which returns or calls itself on next
TryLambdaReturn(newError) ==
  /\ opt.pc = "try_lambda"
  /\ LET r == try_lambda(opt, newError)
     IN /\ r.returns
        /\ opt' = levenbergMarquardt_Continue(opt, r.next)
  /\ UNCHANGED << treeVars, driverVars, we, chol, call, lf, lin >>

\* try_lambda finds a larger error and calls itself on the cautious optimizer
TryLambdaRecurse(newError) ==
  /\ opt.pc = "try_lambda"
  /\ opt.tries < MaxTries
  /\ LET r == try_lambda(opt, newError)
     IN /\ ~r.returns
        /\ opt' = [opt EXCEPT !.cautious = r.cautious, !.tries = @ + 1]
  /\ UNCHANGED << treeVars, driverVars, we, chol, call, lf, lin >>

NextNLO ==
  \/ IterateLM
  \/ \E newError \in Errors : TryLambdaReturn(newError)
  \/ \E newError \in Errors : TryLambdaRecurse(newError)

SpecNLO == InitNLO /\ [][NextNLO]_vars


(***************************************************************************)
(* Elimination of a LinearFactor graph and optimize.  Variables are        *)
(* scalars named 1 .. NumLinKeys.  A LinearFactor is its set of keys and   *)
(* its rows, a row holding one coefficient for every variable (0 outside   *)
(* the keys), its entry of b and its sigma.  LinearFactor::eliminate runs  *)
(* weighted_eliminate, in the frame we, on the matrix of the combined      *)
(* factor with the eliminated key in the first column.  A sigma the kernel *)
(* returns is the 1./sqrt(precision) it was built from.                    *)
(***************************************************************************)
\* variables of a graph
NumLinKeys == 2

\* factors of a graph
MaxLinFactors == 3

LinKeys == 1 .. NumLinKeys

LinRow(a, b, sigma) == [a |-> a, b |-> b, sigma |-> sigma]

\* a prior on one variable, or a difference of two
LinFactorChoices ==
  {[keys |-> {k},
    rows |-> << LinRow(basis(NumLinKeys, k - 1), Num(b), Num(sigma)) >>] :
     k \in LinKeys, b \in {0, 1}, sigma \in {1, 2}}
  \cup
  {[keys |-> {k, k + 1},
    rows |-> << LinRow([basis(NumLinKeys, k) EXCEPT ![k] = Num(-1)], Num(b),
                       Num(sigma)) >>] :
     k \in 1 .. NumLinKeys - 1, b \in {0, 1}, sigma \in {1, 2}}

\* the graphs of n factors
LinGraphs(n) == {AsSeq(g, n) : g \in [1 .. n -> LinFactorChoices]}

\* the factors of a graph that involve key, in the order of the graph, and
\* the others
RECURSIVE FactorsWith(_, _, _)
FactorsWith(graph, key, involved) ==
  IF graph = << >> THEN << >>
  ELSE IF (key \in Head(graph).keys) = involved
       THEN << Head(graph) >> \o FactorsWith(Tail(graph), key, involved)
       ELSE FactorsWith(Tail(graph), key, involved)

\* LinearFactor(factors): the blocks stacked by key, b and sigmas appended
RECURSIVE combine(_)
combine(fs) ==
  IF fs = << >> THEN [keys |-> {}, rows |-> << >>]
  ELSE LET rest == combine(Tail(fs))
       IN [keys |-> Head(fs).keys \cup rest.keys,
           rows |-> Head(fs).rows \o rest.rows]

\* sigma * sigma for the sigma of a row
SigmaSquared(sigma) ==
  IF "invSqrtOf" \in DOMAIN sigma THEN RDiv(Num(1), sigma.invSqrtOf)
  ELSE RMul(sigma, sigma)

\* the frame of weighted_eliminate(A, b, sigmas) on entry to its loop, for
\* sigmas of either form
weighted_eliminate_call(A, b, sigmas) ==
  LET m == size1(A)
      squares == AsSeq([i \in 1 .. m |-> SigmaSquared(sigmas[i])], m)
  IN [pc |-> "loop", A |-> A, b |-> b, sigmas |-> sigmas,
      weights |-> reciprocal(squares), pseudo |-> zero(m), j |-> 0,
      results |-> << >>]

\* the columns of the matrix LinearFactor::eliminate(key) forms of F
ColumnsOf(F, key) == << key >> \o SortedSeq(F.keys \ {key})

\* LinearFactor::eliminate(key) up to its call of weighted_eliminate
LinearFactor_eliminate_call(F, key) ==
  LET columns == ColumnsOf(F, key)
      m == Len(F.rows)
      n == Len(columns)
  IN weighted_eliminate_call(
       AsSeq([i \in 1 .. m |->
                AsSeq([c \in 1 .. n |-> F.rows[i].a[columns[c]]], n)], m),
       AsSeq([i \in 1 .. m |-> F.rows[i].b], m),
       AsSeq([i \in 1 .. m |-> F.rows[i].sigma], m))

\* the row of a solution (r, d, sigma) over the variables, r being written
\* over the columns
SolutionRow(columns, s) ==
  LinRow(AsSeq([k \in LinKeys |->
                  IF \E c \in 1 .. Len(columns) : columns[c] = k
                  THEN s.r[CHOOSE c \in 1 .. Len(columns) : columns[c] = k]
                  ELSE Num(0)], NumLinKeys),
         s.d, s.sigma)

\* LinearFactor::eliminate(key) from the solution weighted_eliminate
\* returned: the conditional on key and the factor on the separator, thrown
\* when no row solves key
LinearFactor_eliminate(F, key, solution) ==
  LET columns == ColumnsOf(F, key)
      solved == AsSeq([i \in 1 .. Len(solution) |->
                         SolutionRow(columns, solution[i])], Len(solution))
      separator == Tail(solved)
  IN IF solution = << >> \/ solution[1].r[1] # Num(1)
     THEN [thrown |-> TRUE]
     ELSE [thrown |-> FALSE,
           conditional |-> [key |-> key,
                            S |-> [solved[1].a EXCEPT ![key] = Num(0)],
                            d |-> solved[1].b, sigma |-> solved[1].sigma],
           factor |-> [keys |-> {k \in F.keys \ {key} :
                                   \E i \in 1 .. Len(separator) :
                                      separator[i].a[k] # Num(0)},
                       rows |-> separator]]

\* optimize(bayesNet): x = inv(R)*d from the last conditional to the first,
\* R being 1
RECURSIVE optimize(_, _)
optimize(bayesNet, x) ==
  IF bayesNet = << >> THEN x
  ELSE LET cg == bayesNet[Len(bayesNet)]
       IN optimize(SubSeq(bayesNet, 1, Len(bayesNet) - 1),
                   [x EXCEPT ![cg.key] = RSub(cg.d, inner_prod(cg.S, x))])

InitLin ==
  /\ \E n \in 1 .. MaxLinFactors :
        \E graph \in LinGraphs(n), ord \in Orderings(NumLinKeys) :
           lin = [pc |-> "eliminate", graph |-> graph, factors |-> graph,
                  ordering |-> AsSeq(ord, NumLinKeys), bayesNet |-> << >>,
                  x |-> << >>]
  /\ we = Idle
  /\ chol = Idle
  /\ call = Idle
  /\ lf = Idle
  /\ opt = Idle
  /\ InitNoTree

\* eliminateOne for the next key of the ordering, up to the call of
\* weighted_eliminate on the combined factor; a key no factor involves throws
LinCombine ==
  /\ lin.pc = "eliminate"
  /\ lin.ordering # << >>
  /\ LET key == Head(lin.ordering)
         joint == combine(FactorsWith(lin.factors, key, TRUE))
     IN IF joint.rows = << >>
        THEN /\ lin' = [lin EXCEPT !.pc = "thrown"]
             /\ we' = we
        ELSE /\ lin' = [lin EXCEPT !.pc = "weighted_eliminate"]
             /\ we' = LinearFactor_eliminate_call(joint, key)
  /\ UNCHANGED << treeVars, driverVars, chol, call, lf, opt >>

\* eliminateOne after weighted_eliminate returned
LinEliminateOne ==
  /\ lin.pc = "weighted_eliminate"
  /\ we.pc = "done"
  /\ LET key == Head(lin.ordering)
         joint == combine(FactorsWith(lin.factors, key, TRUE))
         others == FactorsWith(lin.factors, key, FALSE)
         e == LinearFactor_eliminate(joint, key, we.results)
     IN lin' = IF e.thrown THEN [lin EXCEPT !.pc = "thrown"]
               ELSE [lin EXCEPT
                       !.pc = "eliminate",
                       !.ordering = Tail(@),
                       !.bayesNet = Append(@, e.conditional),
                       !.factors = IF e.factor.rows = << >> THEN others
                                   ELSE Append(others, e.factor)]
  /\ we' = Idle
  /\ UNCHANGED << treeVars, driverVars, chol, call, lf, opt >>

\* optimize on the BayesNet of the exhausted ordering
LinOptimize ==
  /\ lin.pc = "eliminate"
  /\ lin.ordering = << >>
  /\ lin' = [lin EXCEPT !.pc = "optimized",
                        !.x = optimize(lin.bayesNet, zero(NumLinKeys))]
  /\ UNCHANGED << treeVars, driverVars, we, chol, call, lf, opt >>

NextLin ==
  \/ LinCombine
  \/ WeightedEliminateColumn
  \/ WeightedEliminateReturn
  \/ LinEliminateOne
  \/ LinOptimize

SpecLin == InitLin /\ [][NextLin]_vars

(***************************************************************************)
(* Notions the properties are stated in.                                   *)
(***************************************************************************)
Cliques == 1 .. Len(heap)

KeysOf(clique) == Range(heap[clique].conditional.keys)

FrontalsOf(clique) == Range(frontals(heap[clique].conditional))

SeparatorOf(clique) == Range(parents(heap[clique].conditional))

\* the cliques above clique, following the parent links
RECURSIVE AncestorsIn(_, _)
AncestorsIn(h, clique) ==
  IF h[clique].parent_ = NULL THEN {}
  ELSE {h[clique].parent_} \cup AncestorsIn(h, h[clique].parent_)

Ancestors(clique) == AncestorsIn(heap, clique)

\* the clique and the cliques above it, as removePath walks them
PathUp(clique) == IF clique = NULL THEN {} ELSE {clique} \cup Ancestors(clique)

NoDuplicates(l) == \A i, j \in 1 .. Len(l) : l[i] = l[j] => i = j

(***************************************************************************)
(* C1                                                                      *)
(***************************************************************************)
\* C1 (as amended): the tree built by insert calls that take the conditionals
\* of the Bayes net one at a time from the last one backward (root first) is
\* equals()-equal, in both directions, to the tree BayesTree(net) builds.
C1_RootFirstInsertsEqualConstructor ==
  rev = Len(net) =>
    /\ ~BayesTree(net).error
    /\ equals(This, BayesTree(net).tree)
    /\ equals(BayesTree(net).tree, This)

\* a whole net inserted root first gave a tree of several cliques
C1_Witness == rev = Len(net) /\ treeSize(This) >= 3 /\ bn = << >>

\* C1 (as claimed): the tree built by insert calls that take the conditionals
\* in elimination order (first eliminated first) equals the one-pass tree.
C1_ElimOrderInsertsEqualConstructor ==
  fwd = Len(net) => equals(This, BayesTree(net).tree)

(***************************************************************************)
(* C2                                                                      *)
(***************************************************************************)
\* C2: in a tree built from the Bayes net of an eliminated factor graph, after
\* every insert (new clique or merge) and after the one-pass construction, the
\* separator of every clique that has a parent is a subset of the frontal and
\* separator keys of that parent.
C2_SeparatorInParent ==
  /\ \A c \in Cliques :
        heap[c].parent_ # NULL => SeparatorOf(c) \subseteq KeysOf(heap[c].parent_)
  /\ LET B == BayesTree(net).tree IN
       \A c \in 1 .. Len(B.heap) :
          B.heap[c].parent_ # NULL =>
             Range(parents(B.heap[c].conditional))
                \subseteq Range(B.heap[B.heap[c].parent_].conditional.keys)

\* a clique was attached below another one and a conditional was then merged
\* into it
C2_Witness ==
  /\ \E c \in Cliques : heap[c].parent_ # NULL /\ heap[c].conditional.nrFrontals >= 2
  /\ bn = << >>

(***************************************************************************)
(* C3                                                                      *)
(***************************************************************************)
\* C3 (as amended): running intersection: every variable of a clique's
\* separator is a frontal key of a clique above it, and appears in the
\* separator or frontal set of every clique on the path from the clique up to
\* and including that one (not on the rest of the path to the root).
C3_RunningIntersection ==
  \A c \in Cliques : \A v \in SeparatorOf(c) :
     /\ \E a \in Ancestors(c) : v \in FrontalsOf(a)
     /\ \A a \in Ancestors(c) :
           (\E b \in {a} \cup Ancestors(a) : v \in FrontalsOf(b)) => v \in KeysOf(a)

\* a clique two levels below the root whose separator variable is frontal in
\* its parent
C3_Witness ==
  \E c \in Cliques :
     /\ heap[c].parent_ # NULL
     /\ heap[heap[c].parent_].parent_ # NULL
     /\ SeparatorOf(c) \cap FrontalsOf(heap[c].parent_) # {}
     /\ bn = << >>

\* C3 (as claimed): every variable of a clique's separator appears in the
\* separator or frontal set of every clique on the path from it to the root.
C3_SeparatorOnWholePath ==
  \A c \in Cliques : \A v \in SeparatorOf(c) : \A a \in Ancestors(c) : v \in KeysOf(a)

(***************************************************************************)
(* C4                                                                      *)
(***************************************************************************)
\* what C4 says of one insert call, the merge being taken when the number
\* mergeSize(owner) of the owning clique equals the number of parents
C4_Post(conditional, mergeSize(_)) ==
  LET ps  == parents(conditional)
      key == conditional.keys[1]
      new == Len(heap) + 1
  IN IF ps = << >>
     THEN /\ Len(heap') = new
          /\ root_' = new
          /\ heap'[new] = NewClique(conditional)
          /\ nodes_'[key + 1] = new
     ELSE LET low == MinOf(Range(ps)) IN
          IF ~(low < Len(nodes_) /\ nodes_[low + 1] # NULL)
          THEN UNCHANGED << root_, nodes_, heap >>
          ELSE LET owner == nodes_[low + 1] IN
               /\ low \in FrontalsOf(owner)
               /\ root_' = root_
               /\ IF mergeSize(owner) = Len(ps)
                  THEN /\ Len(heap') = Len(heap)
                       /\ heap'[owner].conditional =
                             [keys |-> << key >> \o heap[owner].conditional.keys,
                              nrFrontals |-> heap[owner].conditional.nrFrontals + 1]
                       /\ nodes_'[key + 1] = owner
                  ELSE /\ Len(heap') = new
                       /\ heap'[new].conditional = conditional
                       /\ heap'[new].parent_ = owner
                       /\ heap'[owner].children_ = Append(heap[owner].children_, new)
                       /\ nodes_'[key + 1] = new

C4_AllKeys(clique) == Cardinality(KeysOf(clique))

C4_SeparatorKeys(clique) == Cardinality(SeparatorOf(clique))

\* C4 (as amended): insert with a non-empty parent set P takes the clique that
\* owns the lowest-ordered key of P, merges the frontal key into it (no new
\* clique) exactly when the number of all keys of that clique, frontal and
\* separator, equals the size of P, and otherwise creates a new clique below
\* it; a conditional without parents becomes the root clique.
C4_InsertPlacement ==
  [][\A i \in 1 .. Len(net) :
        Insert(net[i]) => C4_Post(net[i], C4_AllKeys)]_vars

\* both branches were taken: a root of two frontal keys with a clique below it
C4_Witness ==
  /\ root_ # NULL
  /\ heap[root_].conditional.nrFrontals >= 2
  /\ heap[root_].children_ # << >>
  /\ bn = << >>

\* C4 (as claimed): the merge is taken exactly when the separator of that
\* clique has the same size as P.
C4_MergeOnSeparatorSize ==
  [][\A i \in 1 .. Len(net) :
        Insert(net[i]) => C4_Post(net[i], C4_SeparatorKeys)]_vars

(***************************************************************************)
(* C5                                                                      *)
(***************************************************************************)
\* C5: after any sequence of insert, removePath and removeTop calls the index
\* maps a key to a clique only if that clique is live (reachable from the
\* root or from an orphan) and has the key in its frontal set, and every
\* frontal key of a live clique is mapped to that clique; so no key is mapped
\* to a clique that was removed.
C5_IndexMatchesLiveCliques ==
  /\ \A k \in Keys :
        (k < Len(nodes_) /\ nodes_[k + 1] # NULL) =>
           /\ nodes_[k + 1] \in Live(This)
           /\ k \in FrontalsOf(nodes_[k + 1])
  /\ \A c \in Live(This) : \A k \in FrontalsOf(c) :
        k < Len(nodes_) /\ nodes_[k + 1] = c

(***************************************************************************)
(* C6                                                                      *)
(***************************************************************************)
\* the tree cannot take the conditional: its frontal key is in the tree
\* already, it has no parents while there is a root, or a parent is missing
C6_Unacceptable(conditional) ==
  \/ InIndex(This, lastFrontalKey(conditional))
  \/ parents(conditional) = << >> /\ root_ # NULL
  \/ \E p \in Range(parents(conditional)) : ~InIndex(This, p)

\* C6: insert of a conditional whose frontal variable is already in the tree
\* (also a second parentless conditional when there is a root) or whose
\* parents are not yet in the tree fails and leaves the root, the cliques and
\* the index as they were.
C6_BadInsertChangesNothing ==
  [][\A conditional \in AnyConditionals :
        (C6_Unacceptable(conditional) /\ InsertAny(conditional))
           => UNCHANGED << root_, nodes_, heap >>]_vars

(***************************************************************************)
(* C7                                                                      *)
(***************************************************************************)
\* the conditionals of a set of cliques, as found before the call
C7_ConditionalsOf(S) == {heap[c].conditional : c \in S}

\* C7: removePath(clique) removes the clique and every clique above it up to
\* and including the root (none of them stays live or in the index, every
\* other live clique stays live), leaves the tree without a root and appends
\* to bn one conditional per removed clique, the conditional of that clique,
\* and nothing else; removePath of a null clique changes nothing.
C7_RemovePathRemovesPath ==
  [][\A clique \in PathArgs :
        RemovePath(clique) =>
          IF clique = NULL
          THEN UNCHANGED << root_, nodes_, heap, bn, orphans >>
          ELSE LET R == PathUp(clique) IN
               /\ root_' = NULL
               /\ Live(This)' = Live(This) \ R
               /\ \A k \in 1 .. Len(nodes_') : nodes_'[k] \notin R
               /\ Len(bn') = Len(bn) + Cardinality(R)
               /\ SubSeq(bn', 1, Len(bn)) = bn
               /\ {bn'[i] : i \in (Len(bn) + 1) .. Len(bn')} = C7_ConditionalsOf(R)]_vars

\* a path of two cliques has been removed from a tree and left an orphan
C7_Witness == Len(bn) = 2 /\ Len(orphans) = 1 /\ root_ = NULL

(***************************************************************************)
(* C8                                                                      *)
(***************************************************************************)
\* the children, before the call, of the cliques of R that are not in R
C8_ChildrenOff(R) ==
  (UNION {Range(heap[r].children_) : r \in R}) \ R

\* C8: removePath(clique) puts into the orphan list exactly the children of
\* the removed cliques that are not themselves removed (and takes removed
\* cliques out of it); every clique of an orphan subtree keeps its conditional
\* (frontal and separator keys) and its child list, and only the parent link
\* of each new orphan root is cleared.
C8_OrphansKeepTheirSubtrees ==
  [][\A clique \in PathArgs \ {NULL} :
        RemovePath(clique) =>
          LET R == PathUp(clique) IN
          /\ Range(orphans') = (Range(orphans) \ R) \cup C8_ChildrenOff(R)
          /\ NoDuplicates(orphans')
          /\ \A c \in Live(This) \ R :
                /\ heap'[c].conditional = heap[c].conditional
                /\ heap'[c].children_ = heap[c].children_
                /\ heap'[c].parent_ =
                      IF c \in C8_ChildrenOff(R) THEN NULL ELSE heap[c].parent_]_vars

\* an orphan that has a child of its own
C8_Witness ==
  \E o \in Range(orphans) :
     /\ heap[o].children_ # << >>
     /\ heap[o].parent_ = NULL
     /\ \A ch \in Range(heap[o].children_) : heap[ch].parent_ = o

(***************************************************************************)
(* C9                                                                      *)
(***************************************************************************)
\* the conditionals along the parent links, the clique's own first
RECURSIVE C9_PathConditionals(_)
C9_PathConditionals(clique) ==
  IF clique = NULL THEN << >>
  ELSE << heap[clique].conditional >> \o C9_PathConditionals(heap[clique].parent_)

\* C9: the conditionals that removePath(clique) appends to bn are in removal
\* order: the conditional of the clique passed in first, then its parent's,
\* the root's last.
C9_CliqueFirstRootLast ==
  [][\A clique \in PathArgs :
        RemovePath(clique) => bn' = bn \o C9_PathConditionals(clique)]_vars

(***************************************************************************)
(* C10                                                                     *)
(***************************************************************************)
\* the keys of the list that the index holds before the call
RECURSIVE C10_Present(_)
C10_Present(keys) ==
  IF keys = << >> THEN << >>
  ELSE IF Head(keys) < Len(nodes_) /\ nodes_[Head(keys) + 1] # NULL
       THEN << Head(keys) >> \o C10_Present(Tail(keys))
       ELSE C10_Present(Tail(keys))

\* the cliques a call with result R removed: in the index before, not after
C10_Removed(R) ==
  {c \in Cliques : \E k \in FrontalsOf(c) : nodes_[k + 1] = c /\ R.nodes_[k + 1] # c}

\* C10: in every state removals can leave, and for any key list, the result of
\* removeTop(keys) holds the conditional of each removed clique in bn exactly
\* once, its orphan list holds no clique twice, no orphan is a removed clique,
\* and the keys that the index does not hold are skipped: the call does what
\* it does for the list without them and changes nothing when the index holds
\* none of the keys.
C10_RemoveTopNoDuplicates ==
  \A keys \in TopKeyLists :
    LET R == removeTop(This, keys) IN
    /\ \A c \in C10_Removed(R) :
          Cardinality({i \in 1 .. Len(R.bn) : R.bn[i] = heap[c].conditional}) = 1
    /\ NoDuplicates(R.bn)
    /\ NoDuplicates(R.orphans)
    /\ \A o \in Range(R.orphans) :
          /\ o \notin C10_Removed(R)
          /\ heap[o].conditional \notin Range(R.bn)
    /\ R = removeTop(This, C10_Present(keys))
    /\ C10_Present(keys) = << >> => R = This

\* after an earlier removal, a list of two indexed keys whose second key lies
\* in a subtree that the removal for the first key orphans
C10_Witness ==
  /\ bn # << >>
  /\ \E keys \in TopKeyLists :
        /\ Len(keys) = 2
        /\ C10_Present(keys) = keys
        /\ LET W1 == removeTop(This, << keys[1] >>) IN
           /\ InIndex(W1, keys[2])
           /\ \E o \in Range(W1.orphans) \ Range(orphans) :
                 CliqueOf(W1, keys[2]) \in Subtree(W1, o)

(***************************************************************************)
(* C11                                                                     *)
(***************************************************************************)
\* C11: after clear() of a tree built from a Bayes net and the re-insertion
\* of the same net, no assert has failed and the tree equals() the tree the
\* constructor builds from the net, compared in both directions.
C11_ClearThenReinsertEqualsOriginal ==
  /\ ~aborted
  /\ rev = Len(net) =>
        /\ equals(This, BayesTree(net).tree)
        /\ equals(BayesTree(net).tree, This)

\* a tree of several cliques rebuilt after clear(): the objects of the first
\* tree are still on the heap
C11_Witness ==
  /\ rev = Len(net)
  /\ treeSize(This) >= 2
  /\ Len(heap) >= 2 * treeSize(This)
  /\ \E c \in Cliques : heap[c].conditional.nrFrontals >= 2

(***************************************************************************)
(* C12                                                                     *)
(***************************************************************************)
\* the keys eliminated so far: the frontal keys of a Bayes net
C12_Eliminated(bayesNet) ==
  {lastFrontalKey(bayesNet[i]) : i \in 1 .. Len(bayesNet)}

\* C12: after each eliminateOne(key) of the driver, no factor that referenced
\* key remains, no remaining factor references key or an earlier eliminated
\* key, the factors that did not reference key all remain, and the only
\* factor that can be new is the separator factor (the parents of the
\* conditional), which is among the remaining factors exactly when it is
\* non-empty.
C12_EliminateOneRemovesKey ==
  [][EliminateOne =>
      LET key      == Head(ordering)
          touching == {f \in factors : key \in f}
          sep      == Range(parents(net'[Len(net')]))
      IN /\ \A f \in touching : f \notin factors'
         /\ \A f \in factors' : f \cap C12_Eliminated(net') = {}
         /\ (factors \ touching) \subseteq factors'
         /\ (factors' \ factors) \subseteq {sep}
         /\ sep # {} => sep \in factors'
         /\ sep = {} => sep \notin factors']_vars

\* two keys eliminated, the second with an empty separator, and a separator
\* factor on two keys among the remaining factors
C12_Witness ==
  /\ Len(net) >= 2
  /\ parents(net[Len(net)]) = << >>
  /\ \E i \in 1 .. Len(net) : Range(parents(net[i])) \in factors
  /\ \E f \in factors : Cardinality(f) = 2

(***************************************************************************)
(* C13                                                                     *)
(***************************************************************************)
\* C13: the Bayes net of a full elimination, of any factor graph under any
\* ordering of its variables, has, reading front to back, every parent of a
\* conditional as the frontal key of a later conditional, and its last
\* conditional has no parents.
C13_ParentsAppearLater ==
  (ordering = << >> /\ net # << >>) =>
     /\ \A i \in 1 .. Len(net) : \A p \in Range(parents(net[i])) :
           \E j \in (i + 1) .. Len(net) : lastFrontalKey(net[j]) = p
     /\ parents(net[Len(net)]) = << >>

\* a finished elimination with a conditional on two parents, one of them
\* brought in by a separator factor
C13_Witness ==
  /\ ordering = << >>
  /\ Len(net) = NumElimKeys
  /\ \E i \in 1 .. Len(net) : Len(parents(net[i])) >= 2
  /\ \E i \in 2 .. Len(net) : Len(parents(net[i])) >= 2

(***************************************************************************)
(* C14                                                                     *)
(***************************************************************************)
\* C14 as stated: after each eliminateOne the conditional on the key just
\* eliminated is at the front of the accumulated Bayes net.
C14_MostRecentAtFront ==
  [][EliminateOne => lastFrontalKey(net'[1]) = Head(ordering)]_vars

\* C14: eliminateOne puts the resulting conditional at the back of the
\* accumulated Bayes net and leaves the conditionals before it as they were:
\* after eliminating k1, ..., kn in that order the conditional on the most
\* recently eliminated key is the last one and the one on k1 is at the front.
C14_MostRecentAtBack ==
  [][EliminateOne =>
      /\ Len(net') = Len(net) + 1
      /\ lastFrontalKey(net'[Len(net')]) = Head(ordering)
      /\ SubSeq(net', 1, Len(net)) = net]_vars

\* several keys eliminated, the first one still at the front
C14_Witness ==
  /\ Len(net) >= 3
  /\ lastFrontalKey(net[1]) = 0
  /\ lastFrontalKey(net[Len(net)]) = Len(net) - 1
  /\ parents(net[1]) # << >>

(***************************************************************************)
(* C15                                                                     *)
(***************************************************************************)
\* C15: for the chain x1 .. x7, elimination followed by the constructor ends
\* without a failed assert in a tree of 6 cliques under the natural ordering
\* and in a tree of 4 cliques under the ordering x1,x3,x5,x7,x2,x6,x4.
C15_ChainCliqueCounts ==
  /\ ~aborted
  /\ (ordering = << >> /\ rev = ChainLen) =>
        /\ net = ChainNet(NaturalOrdering) => treeSize(This) = 6
        /\ net = ChainNet(NestedOrdering) => treeSize(This) = 4

\* the finished tree of the chain under the nested-dissection ordering
C15_Witness ==
  /\ ordering = << >>
  /\ rev = ChainLen
  /\ net = ChainNet(NestedOrdering)
  /\ treeSize(This) = 4
  /\ Len(heap) = 4

(***************************************************************************)
(* C16                                                                     *)
(***************************************************************************)
\* the precision 1/sigma_i^2 of every row, from the sigmas of the call
C16_RowPrecisions == reciprocal(emul(we.sigmas, we.sigmas))

\* C16: for each column weighted_eliminate eliminates, given sigmas that are
\* all positive, the reported sigma is 1/sqrt(precision) for the precision
\* sum_i a_i^2 / sigma_i^2 of the column, and the pseudo-inverse has
\* (a_i / sigma_i^2) / precision at row i.
C16_WeightsArePrecisions ==
  [][(/\ WeightedEliminateColumn
      /\ Len(we'.results) > Len(we.results)
      /\ \A i \in 1 .. Len(we.sigmas) : RLess(Num(0), we.sigmas[i]))
     => LET a == column_(we.A, we.j)
            precision == inner_prod(emul(a, a), C16_RowPrecisions)
        IN /\ we'.results[Len(we'.results)].sigma = InvSqrt(precision)
           /\ \A i \in 1 .. Len(a) :
                 we'.pseudo[i] = RDiv(RMul(a[i], C16_RowPrecisions[i]), precision)]_vars

(***************************************************************************)
(* C17                                                                     *)
(***************************************************************************)
\* the rows that are hard constraints on the current column: sigma
\* numerically zero, coefficient not
C17_Constraints ==
  {i \in 1 .. Len(we.sigmas) :
     /\ LessThanInverse(we.sigmas[i], Tol9)
     /\ GreaterThanInverse(fabs(column_(we.A, we.j)[i]), Tol9)}

\* C17: when a row of the current column is a hard constraint, the column is
\* eliminated with infinite precision (the reported sigma is 1/sqrt(inf)) and
\* the pseudo-inverse is 1/a_i at the first such row and zero elsewhere.
C17_HardConstraintSolvesColumn ==
  [][(WeightedEliminateColumn /\ C17_Constraints # {})
     => LET i == MinOf(C17_Constraints)
            a == column_(we.A, we.j)
        IN /\ Len(we'.results) = Len(we.results) + 1
           /\ we'.results[Len(we'.results)].sigma = InvSqrt(Infinity)
           /\ we'.pseudo = delta(Len(a), i - 1, RDiv(Num(1), a[i]))]_vars

(***************************************************************************)
(* C18: choleskyCareful throws the non-positive-semidefinite error exactly  *)
(* when a pivot it reads is below -0.1, and then returns no result pair; a  *)
(* pivot in [-0.1, 0) is no error and is handled as a zero pivot is: the    *)
(* row gets the underconstrained prior on its diagonal and zeros after it,  *)
(* it does not count towards the rank, and the factor is not of full rank.  *)
(***************************************************************************)
C18_BelowThreshold(x) == RLess(x, Rat(-1, 10))

C18_ZeroOrTolerated(x) == ~C18_BelowThreshold(x) /\ ~RLess(Num(0), x)

C18_ThrowsExactlyBelowThreshold ==
  chol.pc # "idle" =>
    /\ (chol.pc = "thrown") <=>
         (\E i \in 1 .. Len(chol.alphas) : C18_BelowThreshold(chol.alphas[i]))
    /\ chol.pc = "thrown" => chol.result = << >>
    /\ chol.pc = "done" =>
         /\ chol.result = << chol.maxrank, chol.fullRank >>
         /\ Len(chol.alphas) = chol.order
    /\ \A i \in 1 .. Len(chol.alphas) :
         C18_ZeroOrTolerated(chol.alphas[i]) =>
           /\ chol.ATA[i][i] = Rat(1, 100000)
           /\ \A j \in (i + 1) .. chol.order : chol.ATA[i][j] = Num(0)
           /\ ~chol.fullRank
           /\ chol.maxrank # i

\* a call that returned although the pivot of its second row, left by the
\* update of the first, was negative within the tolerance
C18_Witness ==
  /\ chol.pc = "done"
  /\ chol.order = 2
  /\ RLess(Num(0), chol.alphas[1])
  /\ RLess(chol.alphas[2], Num(0))
  /\ chol.result = << 1, FALSE >>

(***************************************************************************)
(* C19: a back-substitution called with a matrix that is not square ends by *)
(* throwing invalid_argument and has computed no result.                    *)
(***************************************************************************)
C19_NonSquareThrows ==
  (call.pc \notin {"idle", "called"} /\ size1(call.U) # size2(call.U)) =>
    /\ call.pc = "thrown"
    /\ call.error = "invalid_argument"
    /\ call.result = << >>

(***************************************************************************)
(* C20: in every state of a LinearFactor the right-hand side, the sigmas    *)
(* and every matrix of the factor have the same number of rows.             *)
(***************************************************************************)
C20_RowsAgree ==
  lf.pc = "object" =>
    /\ Len(lf.sigmas_) = Len(lf.b_)
    /\ \A t \in lf.As_ : size1(t[2]) = Len(lf.b_)

(***************************************************************************)
(* C30: insert and set_A never overwrite.  For a key the factor holds, the  *)
(* call changes nothing: the block of the key, the key set, b and sigmas    *)
(* stay; for a new key, only the block of that key is added.                *)
(***************************************************************************)
C30_KeysOf(F) == {t[1] : t \in F.As_}

\* get_A(key): the block held for key
C30_Block(F, key) == (CHOOSE t \in F.As_ : t[1] = key)[2]

C30_FrameOf(F, G, key, A) ==
  /\ G.b_ = F.b_
  /\ G.sigmas_ = F.sigmas_
  /\ G.pc = F.pc
  /\ \A k \in C30_KeysOf(G) : Cardinality({t \in G.As_ : t[1] = k}) = 1
  /\ IF key \in C30_KeysOf(F)
     THEN /\ C30_KeysOf(G) = C30_KeysOf(F)
          /\ \A k \in C30_KeysOf(F) : C30_Block(G, k) = C30_Block(F, k)
     ELSE /\ C30_KeysOf(G) = C30_KeysOf(F) \cup {key}
          /\ C30_Block(G, key) = A
          /\ \A k \in C30_KeysOf(F) : C30_Block(G, k) = C30_Block(F, k)

C30_InsertNeverOverwrites ==
  lf.pc = "object" =>
    \A t \in TermArgs :
      /\ C30_FrameOf(lf, insertA(lf, t[1], t[2]), t[1], t[2])
      /\ C30_FrameOf(lf, set_A(lf, t[1], t[2]), t[1], t[2])

\* a factor that holds a block for a key and is offered another block for it
C30_Witness ==
  /\ lf.pc = "object"
  /\ \E t \in TermArgs :
        /\ t[1] \in C30_KeysOf(lf)
        /\ t[2] # C30_Block(lf, t[1])
        /\ C30_Block(insertA(lf, t[1], t[2]), t[1]) = C30_Block(lf, t[1])

(***************************************************************************)
(* C23: when insert merges a conditional of an eliminated factor graph into *)
(* a clique, the parents of the conditional are exactly the keys (frontal   *)
(* and separator) of that clique and all are ordered after the frontal key  *)
(* of the conditional: the debug asserts of addToCliqueFront hold.          *)
(***************************************************************************)
\* insert(conditional) creates no clique and reports no error: it merged
C23_Merges(conditional) ==
  LET r == insert(This, conditional) IN
  /\ parents(conditional) # << >>
  /\ ~r.error
  /\ Len(r.tree.heap) = Len(heap)

C23_MergeMatchesClique ==
  \A i \in 1 .. Len(net) :
    C23_Merges(net[i]) =>
      LET r == insert(This, net[i])
          clique == CliqueOf(r.tree, lastFrontalKey(net[i]))
      IN /\ Range(parents(net[i])) = Range(heap[clique].conditional.keys)
         /\ \A p \in Range(parents(net[i])) : p > lastFrontalKey(net[i])
         /\ ~r.assertFailed

\* a merge has happened and another conditional of the net is about to merge
C23_Witness ==
  /\ ~aborted
  /\ \E c \in Cliques : heap[c].conditional.nrFrontals >= 2
  /\ \E i \in 1 .. Len(net) :
        /\ ~InIndex(This, lastFrontalKey(net[i]))
        /\ C23_Merges(net[i])

(***************************************************************************)
(* C25: with a root inserted after a removal, removePath of a clique inside *)
(* a detached orphan subtree, and removeTop of a key whose clique lies      *)
(* there, leave the root and the index entries of the cliques outside that  *)
(* orphan subtree as they were.                                             *)
(***************************************************************************)
\* the orphan subtrees as sets of cliques
C25_OrphanSubtrees == {Subtree(This, o) : o \in Range(orphans)}

\* R leaves the root and the index outside the cliques of S as in this tree
C25_FrameOutside(R, S) ==
  /\ R.root_ = root_
  /\ \A key \in 0 .. (Len(nodes_) - 1) :
        (VecGet(nodes_, key) # NULL /\ VecGet(nodes_, key) \notin S) =>
          /\ key < Len(R.nodes_)
          /\ VecGet(R.nodes_, key) = VecGet(nodes_, key)

C25_RemovalInOrphanKeepsTree ==
  (root_ # NULL /\ ~aborted) =>
    \A S \in C25_OrphanSubtrees :
      /\ \A clique \in S : C25_FrameOutside(removePath(This, clique), S)
      /\ \A key \in 0 .. (Len(nodes_) - 1) :
            VecGet(nodes_, key) \in S =>
              C25_FrameOutside(removeTop(This, << key >>), S)

(***************************************************************************)
(* C22: for a Bayes net with one frontal key in every conditional, the tree *)
(* of the generic constructor has the cliques of the symbolic tree of the   *)
(* net: the same frontal keys and separator in the clique of every key, the *)
(* same parent, the same children in the same order, the same root.         *)
(***************************************************************************)
\* the conditional of a clique, or none for a null pointer
C22_ConditionalAt(W, clique) ==
  IF clique = NULL THEN NoConditional ELSE W.heap[clique].conditional

C22_ChildConditionals(W, clique) ==
  LET ch == W.heap[clique].children_
  IN AsSeq([i \in 1 .. Len(ch) |-> W.heap[ch[i]].conditional], Len(ch))

C22_SameCliques(G, S) ==
  /\ Len(G.nodes_) = Len(S.nodes_)
  /\ Len(G.heap) = Len(S.heap)
  /\ Cardinality(Subtree(G, G.root_)) = Cardinality(Subtree(S, S.root_))
  /\ C22_ConditionalAt(G, G.root_) = C22_ConditionalAt(S, S.root_)
  /\ \A i \in 1 .. Len(S.nodes_) :
        LET g == G.nodes_[i]
            s == S.nodes_[i]
        IN /\ (g = NULL) <=> (s = NULL)
           /\ s # NULL =>
                /\ frontals(G.heap[g].conditional) = frontals(S.heap[s].conditional)
                /\ parents(G.heap[g].conditional) = parents(S.heap[s].conditional)
                /\ C22_ConditionalAt(G, G.heap[g].parent_)
                     = C22_ConditionalAt(S, S.heap[s].parent_)
                /\ C22_ChildConditionals(G, g) = C22_ChildConditionals(S, s)

C24_Count(l, x) == Cardinality({i \in 1 .. Len(l) : l[i] = x})

\* the clique reached from clique by n parent links (null beyond the top)
RECURSIVE C24_Up(_, _)
C24_Up(clique, n) ==
  IF clique = NULL \/ n = 0 THEN clique ELSE C24_Up(heap[clique].parent_, n - 1)

C24_LinksAgree ==
  ~aborted =>
    \A c \in Live(This) :
      /\ heap[c].parent_ # NULL =>
           C24_Count(heap[heap[c].parent_].children_, c) = 1
      /\ \A ch \in Range(heap[c].children_) : heap[ch].parent_ = c
      /\ (heap[c].parent_ = NULL) <=> (c = root_ \/ c \in Range(orphans))
      /\ C24_Up(c, Len(heap)) = NULL

\* an orphan subtree hangs under a clique that was inserted after its removal
C24_Witness ==
  /\ ~aborted
  /\ \E c \in Live(This) :
        /\ heap[c].parent_ > c
        /\ heap[c].children_ # << >>

(***************************************************************************)
(* C26: after removePath(c) of a built tree, inserting the conditionals of  *)
(* bn again, root first, and attaching every orphan with insert(subtree)    *)
(* gives a tree that equals() the original: every insert succeeds, every    *)
(* orphan hangs under the clique that was its parent, and the index holds   *)
(* every key with the clique it had.                                        *)
(***************************************************************************)
\* the tree before the removal
C26_Original == BayesTree(net).tree

C26_ParentConditional(W, key) ==
  LET p == W.heap[CliqueOf(W, key)].parent_
  IN IF p = NULL THEN << >> ELSE << W.heap[p].conditional >>

C26_Restored ==
  /\ equals(This, C26_Original)
  /\ equals(C26_Original, This)
  /\ \A key \in 0 .. (NumKeys - 1) :
        /\ InIndex(This, key)
        /\ CliqueOf(This, key) \in Live(This)
        /\ heap[CliqueOf(This, key)].conditional
             = C26_Original.heap[CliqueOf(C26_Original, key)].conditional
        /\ C26_ParentConditional(This, key) = C26_ParentConditional(C26_Original, key)

C26_ReinsertAndReattachRestores ==
  (rev = Other /\ ~aborted) =>
    /\ bn # << >> =>
         /\ ~insert(This, Head(bn)).error
         /\ ~insert(This, Head(bn)).assertFailed
    /\ bn = << >> =>
         \A o \in Range(orphans) :
            /\ ~insertSubtree(This, o).error
            /\ ~insertSubtree(This, o).assertFailed
            /\ ~insertSubtree(This, o).outside
    /\ (bn = << >> /\ orphans = << >>) => C26_Restored

\* a restored tree in which a clique of several keys was inserted again and
\* an orphan with a subtree of its own was attached again
C26_Witness ==
  /\ rev = Other
  /\ ~aborted
  /\ bn = << >>
  /\ orphans = << >>
  /\ root_ # NULL
  /\ \E c \in Live(This) : heap[c].parent_ > c /\ heap[c].children_ # << >>
  /\ \E c \in Live(This) : heap[c].conditional.nrFrontals >= 2

(***************************************************************************)
(* C27: the first component returned by choleskyCareful is the index of the *)
(* row after the last non-zero row of the square-root factor; the rows of   *)
(* zero pivots are all-zero, so the factor can be cut off at that index.    *)
(***************************************************************************)
C27_IsZero(x) ==
  IF "sqrtOf" \in DOMAIN x THEN FALSE
  ELSE IF "num" \in DOMAIN x THEN x.num.n = 0
  ELSE x.n = 0

\* a pivot that choleskyStep does not factor through: not above zero
C27_ZeroPivot(x) == ~RLess(x, Rat(-1, 10)) /\ ~RLess(Num(0), x)

\* row i (from 1) of the factor, the upper triangle of the leading block
C27_ZeroRow(i) == \A j \in i .. chol.order : C27_IsZero(chol.ATA[i][j])

C27_MaxrankAfterLastNonZeroRow ==
  chol.pc = "done" =>
    /\ \A i \in 1 .. chol.order : i > chol.result[1] => C27_ZeroRow(i)
    /\ chol.result[1] >= 1 => ~C27_ZeroRow(chol.result[1])
    /\ \A i \in 1 .. chol.order :
          C27_ZeroPivot(chol.alphas[i]) => C27_ZeroRow(i)

\* C28: the tries a call of iterate() makes before lambda reaches
\* lambdaUpperBound
RECURSIVE C28_Multiplications(_, _, _)
C28_Multiplications(lambda, lambdaFactor, lambdaUpperBound) ==
  IF ~RLess(lambda, lambdaUpperBound) THEN 0
  ELSE 1 + C28_Multiplications(RMul(lambda, lambdaFactor), lambdaFactor,
                               lambdaUpperBound)

C28_Accepted(t, error) ==
  /\ t.outcome # IndeterminantLinearSystemException
  /\ ~RLess(error, t.outcome)

\* the tries of a call are finitely many, and each but the last found a
\* larger error or the exception, left values and error alone and multiplied
\* lambda by lambdaFactor
C28_Tries ==
  opt.pc \in {"loop", "returned"} /\ "tries" \in DOMAIN opt =>
    /\ Len(opt.tries) <= 1 + C28_Multiplications(opt.entry.lambda,
                                                  opt.lambdaFactor,
                                                  opt.lambdaUpperBound)
    /\ \A i \in 1 .. Len(opt.tries) :
         /\ opt.tries[i].lambda =
              IF i = 1 THEN opt.entry.lambda
              ELSE RMul(opt.tries[i - 1].lambda, opt.lambdaFactor)
         /\ (i < Len(opt.tries) \/ opt.pc = "loop") =>
              /\ ~C28_Accepted(opt.tries[i], opt.entry.error)
              /\ RLess(opt.tries[i].lambda, opt.lambdaUpperBound)
    /\ opt.pc = "loop" =>
         /\ opt.values = opt.entry.values
         /\ opt.error = opt.entry.error
         /\ opt.lambda = IF opt.tries = << >> THEN opt.entry.lambda
                         ELSE RMul(opt.tries[Len(opt.tries)].lambda,
                                   opt.lambdaFactor)

\* the state iterate() returns in
C28_Exit ==
  opt.pc = "returned" /\ "tries" \in DOMAIN opt /\ opt.tries # << >> =>
    LET last == opt.tries[Len(opt.tries)]
    IN IF C28_Accepted(last, opt.entry.error)
       THEN /\ opt.values = last.newValues
            /\ opt.values # opt.entry.values
            /\ opt.error = last.outcome
            /\ opt.lambda = RDiv(last.lambda, opt.lambdaFactor)
       ELSE /\ ~RLess(last.lambda, opt.lambdaUpperBound)
            /\ opt.values = opt.entry.values
            /\ opt.error = opt.entry.error
            /\ opt.lambda = last.lambda

\* C28: a call of iterate() with lambda > 0, lambdaFactor > 1 and a finite
\* lambdaUpperBound returns after finitely many tries.  It returns at the
\* first try whose error does not exceed the current error, with the values
\* replaced and lambda divided by lambdaFactor, or at the first other try
\* made with lambda >= lambdaUpperBound, with values and error unchanged.  A
\* try before the last one, the exception among them, changes only lambda,
\* multiplying it by lambdaFactor.
C28_IterateTerminates ==
  /\ [](C28_Tries /\ C28_Exit)
  /\ (opt.pc = "loop") ~> (opt.pc = "returned")

\* a call that returned by accepting new values after a try that raised the
\* exception and one that found a larger error
C28_Witness ==
  /\ opt.pc = "returned"
  /\ Len(opt.tries) >= 3
  /\ \E i \in 1 .. Len(opt.tries) - 1 :
       opt.tries[i].outcome = IndeterminantLinearSystemException
  /\ \E i \in 1 .. Len(opt.tries) - 1 :
       opt.tries[i].outcome # IndeterminantLinearSystemException
  /\ C28_Accepted(opt.tries[Len(opt.tries)], opt.entry.error)
  /\ opt.values # opt.entry.values

\* C29: levenbergMarquardt called with maxIterations = N makes at most N
\* calls of iterateLM, whatever the convergence test says, and gives each of
\* them the lambdaFactor of the caller
C29_AtMostMaxIterationsWithCallersFactor ==
  opt.pc \in {"levenbergMarquardt", "try_lambda", "done"} =>
    /\ Len(opt.iterateLMCalls) <= opt.called.maxIterations
    /\ \A i \in 1 .. Len(opt.iterateLMCalls) :
         opt.iterateLMCalls[i] = opt.called.lambdaFactor

\* C21: the rows of a graph, and the gradient of its weighted squared error
\* at x along variable k, which is zero for every k exactly at a
\* least-squares solution
C21_Rows(graph) == combine(graph).rows

C21_Gradient(rows, x, k) ==
  LET residuals ==
        AsSeq([i \in 1 .. Len(rows) |->
                 RDiv(RMul(rows[i].a[k],
                           RSub(inner_prod(rows[i].a, x), rows[i].b)),
                      SigmaSquared(rows[i].sigma))], Len(rows))
  IN inner_prod(residuals, ones(Len(rows)))

\* C21: for every graph and ordering that eliminate accepts, optimize of the
\* eliminated BayesNet is the least-squares solution of the graph
C21_OptimizeIsLeastSquares ==
  lin.pc = "optimized" =>
    \A k \in LinKeys : C21_Gradient(C21_Rows(lin.graph), lin.x, k) = Num(0)

============================================================================
